---- MODULE Spec2Model ----
(***************************************************************************)
(* Model of the B-tree map of tiny-collections-rs:                         *)
(*   src/src/btreemap/node.rs       Node (keys, vals, edges)               *)
(*   src/src/btreemap/map/stack.rs  PartialSearchStack / SearchStack       *)
(*   src/src/btreemap/map.rs        BTreeMap (root, length, depth, b)      *)
(*                                                                         *)
(* A node is a record [keys, vals, edges, cap]: three Vecs as sequences    *)
(* and the capacity of the keys Vec, which Node::capacity() reads.         *)
(* Indices are 0-based as in the source; sequence accesses add one.        *)
(* A raw node pointer of the search stack is the path (sequence of edge    *)
(* indices) leading from the root to the node.                             *)
(***************************************************************************)
EXTENDS Integers, Sequences, FiniteSets, TLC

\* ---------------------------------------------------------------- bounds
MaxB == 3
MaxKey == 4
MaxVal == 2
DeepKey == 10
MaxVecLen == 4

Keys == 1..MaxKey
Vals == 1..MaxVal
DeepKeys == 1..DeepKey

\* Option<T>
None == <<>>
Some(v) == <<v>>

\* ------------------------------------------------------- Vec primitives
\* Vec::insert(index, x): shifts later entries right.
VecInsert(s, i, x) == SubSeq(s, 1, i) \o <<x>> \o SubSeq(s, i + 1, Len(s))

\* Vec::remove(index): shifts later entries left.
VecRemove(s, i) == SubSeq(s, 1, i) \o SubSeq(s, i + 2, Len(s))

\* Vec::pop(): all but the last element.
VecPop(s) == SubSeq(s, 1, Len(s) - 1)

\* capacity of a Vec after it has been made to hold n elements
VecGrow(c, n) == IF n <= c THEN c ELSE IF 2 * c >= n THEN 2 * c ELSE n

\* ------------------------------------------------------------ node.rs
capacity_from_b(bb) == 2 * bb - 1

min_load_from_capacity(c) == c \div 2

new_leaf(c) == [keys |-> <<>>, vals |-> <<>>, edges |-> <<>>, cap |-> c]

new_internal(c) == [keys |-> <<>>, vals |-> <<>>, edges |-> <<>>, cap |-> c]

make_leaf_root(bb) == new_leaf(capacity_from_b(bb))

from_vecs(ks, vs, es, c) == [keys |-> ks, vals |-> vs, edges |-> es, cap |-> c]

len(n) == Len(n.keys)

capacity(n) == n.cap

is_full(n) == len(n) = capacity(n)

is_underfull(n) == Len(n.keys) < min_load_from_capacity(capacity(n))

is_leaf(n) == n.edges = <<>>

\* SearchResult
Found(i) == [tag |-> "Found", idx |-> i]
GoDown(i) == [tag |-> "GoDown", idx |-> i]

\* mutant: an equal key is passed over like a smaller one
RECURSIVE search_from_skips_equal(_, _, _)
search_from_skips_equal(ks, key, i) ==
    IF i >= Len(ks) THEN GoDown(Len(ks))
    ELSE IF ks[i + 1] <= key THEN search_from_skips_equal(ks, key, i + 1)
    ELSE GoDown(i)


\* mutant: a greater key sends the search one child too far to the right
RECURSIVE search_from_goes_too_far(_, _, _)
search_from_goes_too_far(ks, key, i) ==
    IF i >= Len(ks) THEN GoDown(Len(ks))
    ELSE IF ks[i + 1] < key THEN search_from_goes_too_far(ks, key, i + 1)
    ELSE IF ks[i + 1] = key THEN Found(i)
    ELSE GoDown(i + 1)

RECURSIVE search_from(_, _, _)
search_from(ks, key, i) ==
    IF i >= Len(ks) THEN GoDown(Len(ks))
    ELSE IF ks[i + 1] < key THEN search_from(ks, key, i + 1)
    ELSE IF ks[i + 1] = key THEN Found(i)
    ELSE GoDown(i)

search_linear(n, key) == search_from(n.keys, key, 0)

search(n, key) == search_linear(n, key)


\* mutant: one element more than half moves to the right
split_vec_uneven(s) ==
    LET l == Len(s)
        right_len == l \div 2 + 1
        left_len == l - right_len
    IN  [left  |-> SubSeq(s, 1, left_len),
         right |-> SubSeq(s, left_len + 1, l),
         err   |-> IF left_len >= l THEN "split: get_unchecked_mut out of range" ELSE ""]

\* split<T>(left: &mut Vec<T>) -> Vec<T>: the upper len/2 elements move out.
split_vec(s) ==
    LET l == Len(s)
        right_len == l \div 2
        left_len == l - right_len
    IN  [left  |-> SubSeq(s, 1, left_len),
         right |-> SubSeq(s, left_len + 1, l),
         err   |-> IF left_len >= l THEN "split: get_unchecked_mut out of range" ELSE ""]

\* the first panic of two steps run in sequence
FirstErr(a, c) == IF a # "" THEN a ELSE c

\* Node::split once the three Vecs are split: [left, key, val, right, err]
split_parts(n, sk, sv, se) ==
    IF sk.left = <<>> \/ sv.left = <<>>
    THEN [left |-> n, key |-> 0, val |-> 0,
          right |-> from_vecs(sk.right, sv.right, se.right, n.cap),
          err |-> FirstErr(sk.err, FirstErr(sv.err, FirstErr(se.err,
                      "split: unwrap on None")))]
    ELSE [left  |-> [n EXCEPT !.keys = VecPop(sk.left), !.vals = VecPop(sv.left),
                              !.edges = se.left],
          key   |-> sk.left[Len(sk.left)],
          val   |-> sv.left[Len(sv.left)],
          right |-> from_vecs(sk.right, sv.right, se.right, n.cap),
          err   |-> FirstErr(sk.err, FirstErr(sv.err, se.err))]

\* Node::split: [left, key, val, right, err]
split(n) ==
    split_parts(n, split_vec(n.keys), split_vec(n.vals),
                IF n.edges = <<>> THEN [left |-> <<>>, right |-> <<>>, err |-> ""]
                ELSE split_vec(n.edges))

\* Node::insert_fit_as_leaf: [node, err]
insert_fit_as_leaf(n, index, key, value) ==
    IF index > Len(n.keys) \/ index > Len(n.vals)
    THEN [node |-> n, err |-> "insert_fit_as_leaf: index out of bounds"]
    ELSE [node |-> [n EXCEPT !.keys = VecInsert(@, index, key),
                             !.vals = VecInsert(@, index, value),
                             !.cap  = VecGrow(@, Len(n.keys) + 1)],
          err  |-> ""]

\* Node::insert_fit_as_internal: [node, err]
insert_fit_as_internal(n, index, key, value, right) ==
    IF index > Len(n.keys) \/ index > Len(n.vals) \/ index + 1 > Len(n.edges)
    THEN [node |-> n, err |-> "insert_fit_as_internal: index out of bounds"]
    ELSE [node |-> [n EXCEPT !.keys  = VecInsert(@, index, key),
                             !.vals  = VecInsert(@, index, value),
                             !.edges = VecInsert(@, index + 1, right),
                             !.cap   = VecGrow(@, Len(n.keys) + 1)],
          err  |-> ""]

\* InsertionResult
Fit == [tag |-> "Fit"]
Split(k, v, r) == [tag |-> "Split", key |-> k, val |-> v, right |-> r]

\* unsafe_val_mut(index) on a node: unchecked access
ValErr(n, index) == IF index >= Len(n.vals) THEN "unsafe_val_mut out of range" ELSE ""

\* the (Fit, ptr) result of insert_as_leaf; r is the node after insert_fit_as_leaf
leaf_fit(r, index) ==
    [node |-> r.node, res |-> Fit, err |-> FirstErr(r.err, ValErr(r.node, index))]

\* the Split result when the pair went into the left half r of the split s
split_into_left(s, r, e) ==
    [node |-> r.node, res |-> Split(s.key, s.val, s.right), err |-> FirstErr(s.err, e)]

\* the Split result when the pair went into the right half r of the split s
split_into_right(s, r, e) ==
    [node |-> s.left, res |-> Split(s.key, s.val, r.node), err |-> FirstErr(s.err, e)]

leaf_into_left(s, r, index) ==
    split_into_left(s, r, FirstErr(r.err, ValErr(r.node, index)))

leaf_into_right(s, r, index) ==
    split_into_right(s, r, FirstErr(r.err, ValErr(r.node, index)))

\* mutant: the index into the right half is not moved past the median
leaf_after_split_bad_remap(s, index, key, value) ==
    IF index <= len(s.left)
    THEN leaf_into_left(s, insert_fit_as_leaf(s.left, index, key, value), index)
    ELSE leaf_into_right(s, insert_fit_as_leaf(s.right, index - len(s.left),
                                               key, value),
                         index - len(s.left))

\* Node::insert_as_leaf, the full node after self.split() gave s
leaf_after_split(s, index, key, value) ==
    IF index <= len(s.left)
    THEN leaf_into_left(s, insert_fit_as_leaf(s.left, index, key, value), index)
    ELSE leaf_into_right(s, insert_fit_as_leaf(s.right, index - len(s.left) - 1,
                                               key, value),
                         index - len(s.left) - 1)

\* Node::insert_as_leaf: [node, res, err]
insert_as_leaf(n, index, key, value) ==
    IF ~is_full(n)
    THEN leaf_fit(insert_fit_as_leaf(n, index, key, value), index)
    ELSE leaf_after_split(split(n), index, key, value)

internal_fit(r) == [node |-> r.node, res |-> Fit, err |-> r.err]

internal_into_left(s, r) == split_into_left(s, r, r.err)

internal_into_right(s, r) == split_into_right(s, r, r.err)

\* Node::insert_as_internal, the full node after self.split() gave s
internal_after_split(s, index, key, value, right) ==
    IF index <= len(s.left)
    THEN internal_into_left(s, insert_fit_as_internal(s.left, index, key, value, right))
    ELSE internal_into_right(s, insert_fit_as_internal(s.right, index - len(s.left) - 1,
                                                       key, value, right))


\* mutant: the pair is inserted first and the overfull node split afterwards
insert_as_internal_splits_after(n, index, key, value, right) ==
    IF ~is_full(n)
    THEN internal_fit(insert_fit_as_internal(n, index, key, value, right))
    ELSE [node |-> split(insert_fit_as_internal(n, index, key, value, right).node).left,
          res  |-> Split(split(insert_fit_as_internal(n, index, key, value, right).node).key,
                         split(insert_fit_as_internal(n, index, key, value, right).node).val,
                         split(insert_fit_as_internal(n, index, key, value, right).node).right),
          err  |-> insert_fit_as_internal(n, index, key, value, right).err]

\* Node::insert_as_internal: [node, res, err]
insert_as_internal(n, index, key, value, right) ==
    IF ~is_full(n)
    THEN internal_fit(insert_fit_as_internal(n, index, key, value, right))
    ELSE internal_after_split(split(n), index, key, value, right)

\* Node::remove_as_leaf: [node, key, val, err]
remove_as_leaf(n, index) ==
    IF index >= Len(n.keys) \/ index >= Len(n.vals)
    THEN [node |-> n, key |-> 0, val |-> 0, err |-> "remove_as_leaf: index out of bounds"]
    ELSE [node |-> [n EXCEPT !.keys = VecRemove(@, index), !.vals = VecRemove(@, index)],
          key  |-> n.keys[index + 1],
          val  |-> n.vals[index + 1],
          err  |-> ""]

\* Node::unsafe_swap: exchanges (key, val) with slot index.  [node, key, val, err]
unsafe_swap(n, index, key, value) ==
    IF index >= Len(n.keys) \/ index >= Len(n.vals)
    THEN [node |-> n, key |-> key, val |-> value, err |-> "unsafe_swap out of range"]
    ELSE [node |-> [n EXCEPT !.keys[index + 1] = key, !.vals[index + 1] = value],
          key  |-> n.keys[index + 1],
          val  |-> n.vals[index + 1],
          err  |-> ""]


\* mutant: the first child of the absorbed sibling is lost
absorb_loses_first_edge(n, key, value, right) ==
    [node |-> [n EXCEPT !.keys  = Append(@, key) \o right.keys,
                        !.vals  = Append(@, value) \o right.vals,
                        !.edges = @ \o SubSeq(right.edges, 2, Len(right.edges)),
                        !.cap   = VecGrow(@, Len(n.keys) + 1 + Len(right.keys))],
     err  |-> IF len(n) + len(right) <= capacity(n) THEN ""
              ELSE "absorb: debug_assert failed"]

\* Node::absorb: [node, err]
absorb(n, key, value, right) ==
    [node |-> [n EXCEPT !.keys  = Append(@, key) \o right.keys,
                        !.vals  = Append(@, value) \o right.vals,
                        !.edges = @ \o right.edges,
                        !.cap   = VecGrow(@, Len(n.keys) + 1 + Len(right.keys))],
     err  |-> IF len(n) + len(right) <= capacity(n) THEN ""
              ELSE "absorb: debug_assert failed"]


\* mutant: the separating pair is copied into the merged node and also
\* stays in the parent
merged_keeps_separator(p, left_index, a) ==
    [node |-> [p EXCEPT !.edges = [VecRemove(@, left_index + 1)
                                      EXCEPT ![left_index + 1] = a.node]],
     err  |-> a.err]

\* Node::merge_children once left.absorb(key, val, right) gave a
merged(p, left_index, a) ==
    [node |-> [p EXCEPT !.keys  = VecRemove(@, left_index),
                        !.vals  = VecRemove(@, left_index),
                        !.edges = [VecRemove(@, left_index + 1)
                                      EXCEPT ![left_index + 1] = a.node]],
     err  |-> a.err]

\* Node::merge_children: [node, err]
merge_children(p, left_index) ==
    IF left_index >= Len(p.keys) \/ left_index >= Len(p.vals)
       \/ left_index + 1 >= Len(p.edges)
    THEN [node |-> p, err |-> "merge_children: index out of bounds"]
    ELSE merged(p, left_index,
                absorb(p.edges[left_index + 1], p.keys[left_index + 1],
                       p.vals[left_index + 1], p.edges[left_index + 2]))

\* a node after keys.pop(), vals.pop(), edges.pop()
pop_last(n) == [n EXCEPT !.keys = VecPop(@), !.vals = VecPop(@), !.edges = VecPop(@)]

\* a node after keys.insert(0, key), vals.insert(0, val) and, when the donor
\* had edges, edges.insert(0, last edge of the donor)
push_front(n, key, value, donor_edges) ==
    [n EXCEPT !.keys  = VecInsert(@, 0, key),
              !.vals  = VecInsert(@, 0, value),
              !.edges = IF donor_edges = <<>> THEN @
                        ELSE VecInsert(@, 0, donor_edges[Len(donor_edges)]),
              !.cap   = VecGrow(@, Len(n.keys) + 1)]


\* mutant: the left sibling keeps its last child, the underflowed child gets none
stolen_to_left_keeps_edge(p, i, sw) ==
    [node |-> [sw.node EXCEPT
                  !.edges[i] = [p.edges[i] EXCEPT !.keys = VecPop(@), !.vals = VecPop(@)],
                  !.edges[i + 1] = push_front(p.edges[i + 1], sw.key, sw.val, <<>>)],
     err  |-> sw.err]

\* Node::steal_to_left once the parent's separating pair was swapped (sw)
stolen_to_left(p, i, sw) ==
    [node |-> [sw.node EXCEPT
                  !.edges[i] = pop_last(p.edges[i]),
                  !.edges[i + 1] = push_front(p.edges[i + 1], sw.key, sw.val,
                                              p.edges[i].edges)],
     err  |-> sw.err]

\* Node::steal_to_left: the underflowed child takes from its left sibling.
steal_to_left(p, underflowed_child_index) ==
    IF underflowed_child_index - 1 < 0 \/ underflowed_child_index >= Len(p.edges)
    THEN [node |-> p, err |-> "steal_to_left: unsafe_edge_mut out of range"]
    ELSE IF p.edges[underflowed_child_index].keys = <<>>
            \/ p.edges[underflowed_child_index].vals = <<>>
    THEN [node |-> p, err |-> "steal_to_left: unreachable!"]
    ELSE stolen_to_left(p, underflowed_child_index,
            unsafe_swap(p, underflowed_child_index - 1,
                p.edges[underflowed_child_index].keys[
                    Len(p.edges[underflowed_child_index].keys)],
                p.edges[underflowed_child_index].vals[
                    Len(p.edges[underflowed_child_index].vals)]))

\* a node after keys.remove(0), vals.remove(0) and, unless a leaf, edges.remove(0)
remove_first(n) ==
    [n EXCEPT !.keys = VecRemove(@, 0), !.vals = VecRemove(@, 0),
              !.edges = IF @ = <<>> THEN @ ELSE VecRemove(@, 0)]

\* a node after keys.push(key), vals.push(val) and, when the donor had
\* edges, edges.push(first edge of the donor)
push_back(n, key, value, donor_edges) ==
    [n EXCEPT !.keys  = Append(@, key),
              !.vals  = Append(@, value),
              !.edges = IF donor_edges = <<>> THEN @ ELSE Append(@, donor_edges[1]),
              !.cap   = VecGrow(@, Len(n.keys) + 1)]


\* mutant: the pair taken from the right sibling goes straight into the
\* child, the parent's separating pair stays where it was
stolen_to_right_no_rotation(p, i, sw) ==
    [node |-> [p EXCEPT
                  !.edges[i + 1] = push_back(p.edges[i + 1],
                                             p.edges[i + 2].keys[1],
                                             p.edges[i + 2].vals[1],
                                             p.edges[i + 2].edges),
                  !.edges[i + 2] = remove_first(p.edges[i + 2])],
     err  |-> sw.err]

\* Node::steal_to_right once the parent's separating pair was swapped (sw)
stolen_to_right(p, i, sw) ==
    [node |-> [sw.node EXCEPT
                  !.edges[i + 1] = push_back(p.edges[i + 1], sw.key, sw.val,
                                             p.edges[i + 2].edges),
                  !.edges[i + 2] = remove_first(p.edges[i + 2])],
     err  |-> sw.err]

\* Node::steal_to_right: the underflowed child takes from its right sibling.
steal_to_right(p, underflowed_child_index) ==
    IF underflowed_child_index + 1 >= Len(p.edges)
    THEN [node |-> p, err |-> "steal_to_right: unsafe_edge_mut out of range"]
    ELSE IF p.edges[underflowed_child_index + 2].keys = <<>>
            \/ p.edges[underflowed_child_index + 2].vals = <<>>
    THEN [node |-> p, err |-> "steal_to_right: remove(0) out of bounds"]
    ELSE stolen_to_right(p, underflowed_child_index,
            unsafe_swap(p, underflowed_child_index,
                p.edges[underflowed_child_index + 2].keys[1],
                p.edges[underflowed_child_index + 2].vals[1]))

\* mutant: a left sibling at exactly minimum load is stolen from
handle_underflow_to_left_steals_at_min(p, underflowed_child_index) ==
    IF underflowed_child_index - 1 < 0 \/ underflowed_child_index - 1 >= Len(p.edges)
    THEN [node |-> p, err |-> "handle_underflow_to_left: index out of bounds"]
    ELSE IF len(p.edges[underflowed_child_index]) >= min_load_from_capacity(capacity(p))
    THEN steal_to_left(p, underflowed_child_index)
    ELSE merge_children(p, underflowed_child_index - 1)

\* Node::handle_underflow_to_left: [node, err]
handle_underflow_to_left(p, underflowed_child_index) ==
    IF underflowed_child_index - 1 < 0 \/ underflowed_child_index - 1 >= Len(p.edges)
    THEN [node |-> p, err |-> "handle_underflow_to_left: index out of bounds"]
    ELSE IF len(p.edges[underflowed_child_index]) > min_load_from_capacity(capacity(p))
    THEN steal_to_left(p, underflowed_child_index)
    ELSE merge_children(p, underflowed_child_index - 1)


\* mutant: the right sibling is merged with even when it could lend a pair
handle_underflow_to_right_never_steals(p, underflowed_child_index) ==
    IF underflowed_child_index + 1 >= Len(p.edges)
    THEN [node |-> p, err |-> "handle_underflow_to_right: index out of bounds"]
    ELSE merge_children(p, underflowed_child_index)

\* Node::handle_underflow_to_right: [node, err]
handle_underflow_to_right(p, underflowed_child_index) ==
    IF underflowed_child_index + 1 >= Len(p.edges)
    THEN [node |-> p, err |-> "handle_underflow_to_right: index out of bounds"]
    ELSE IF len(p.edges[underflowed_child_index + 2]) > min_load_from_capacity(capacity(p))
    THEN steal_to_right(p, underflowed_child_index)
    ELSE merge_children(p, underflowed_child_index)

\* mutant: the first child is also sent to its left sibling
handle_underflow_always_left(p, underflowed_child_index) ==
    IF ~(underflowed_child_index <= len(p))
    THEN [node |-> p, err |-> "handle_underflow: assert failed"]
    ELSE IF underflowed_child_index >= 0
         THEN handle_underflow_to_left(p, underflowed_child_index)
         ELSE handle_underflow_to_right(p, underflowed_child_index)

\* Node::handle_underflow: [node, err]
handle_underflow(p, underflowed_child_index) ==
    IF ~(underflowed_child_index <= len(p))
    THEN [node |-> p, err |-> "handle_underflow: assert failed"]
    ELSE IF underflowed_child_index > 0
         THEN handle_underflow_to_left(p, underflowed_child_index)
         ELSE handle_underflow_to_right(p, underflowed_child_index)

\* mutant: the two children of the new root are pushed in the wrong order
make_internal_root_swapped(left_and_out, bb, key, value, right) ==
    [new_internal(capacity_from_b(bb)) EXCEPT
        !.keys = Append(@, key), !.vals = Append(@, value),
        !.edges = <<right, left_and_out>>]

\* Node::make_internal_root: the new root that replaces *left_and_out
make_internal_root(left_and_out, bb, key, value, right) ==
    [new_internal(capacity_from_b(bb)) EXCEPT
        !.keys = Append(@, key), !.vals = Append(@, value),
        !.edges = <<left_and_out, right>>]

\* Node::val / Node::edge: checked slot access, an Option
val(n, idx) == IF idx < Len(n.vals) THEN Some(n.vals[idx + 1]) ELSE None

edge(n, idx) == IF idx < Len(n.edges) THEN Some(n.edges[idx + 1]) ELSE None

\* ------------------------------------------------------------ stack.rs
\* A node pointer is the path from the root: the edge indices taken.
RECURSIVE NodeAt(_, _)
NodeAt(n, path) ==
    IF path = <<>> THEN n ELSE NodeAt(n.edges[path[1] + 1], Tail(path))

\* the tree after a write through a node pointer
RECURSIVE WriteAt(_, _, _)
WriteAt(n, path, new) ==
    IF path = <<>> THEN new
    ELSE [n EXCEPT !.edges[path[1] + 1] = WriteAt(@, Tail(path), new)]

\* the Vec<StackItem> without its last item
Pop(stack) == SubSeq(stack, 1, Len(stack) - 1)

\* PartialSearchStack::push: next is the node at path stack
push(rt, stack, e) ==
    IF edge(NodeAt(rt, stack), e) = None
    THEN [tag |-> "Done", stack |-> stack, top |-> e]
    ELSE [tag |-> "Grew", stack |-> Append(stack, e)]

\* SearchStack::insert, the loop over the pending InsertionResult.
\* m is the map, stack the items still to pop (the path of the node the
\* insertion was applied to).  [map, err, splits]
RECURSIVE insert_loop(_, _, _, _)


\* mutant: depth is also incremented when a parent takes in a split
insert_loop_parent_bumps_depth(m, path, r, splits) ==
    IF r.err # ""
    THEN [map |-> m, err |-> r.err, splits |-> splits]
    ELSE insert_loop([m EXCEPT !.root = WriteAt(@, path, r.node),
                               !.depth = @ + 1], path, r.res, splits + 1)

\* SearchStack::insert, the popped parent after insert_as_internal gave r
insert_loop_parent(m, path, r, splits) ==
    IF r.err # ""
    THEN [map |-> m, err |-> r.err, splits |-> splits]
    ELSE insert_loop([m EXCEPT !.root = WriteAt(@, path, r.node)], path, r.res,
                     splits + 1)


\* mutant: a split of the root does not increment depth
insert_loop_keeps_depth(m, stack, insertion, splits) ==
    IF insertion.tag = "Fit"
    THEN [map |-> m, err |-> "", splits |-> splits]
    ELSE IF stack = <<>>
    THEN [map |-> [m EXCEPT
                     !.root = make_internal_root(@, m.b, insertion.key,
                                                 insertion.val, insertion.right)],
          err |-> "", splits |-> splits + 1]
    ELSE insert_loop_parent(m, Pop(stack),
            insert_as_internal(NodeAt(m.root, Pop(stack)), stack[Len(stack)],
                               insertion.key, insertion.val, insertion.right),
            splits)

insert_loop(m, stack, insertion, splits) ==
    IF insertion.tag = "Fit"
    THEN [map |-> m, err |-> "", splits |-> splits]
    ELSE IF stack = <<>>
    THEN [map |-> [m EXCEPT
                     !.root = make_internal_root(@, m.b, insertion.key,
                                                 insertion.val, insertion.right),
                     !.depth = @ + 1],
          err |-> "", splits |-> splits + 1]
    ELSE insert_loop_parent(m, Pop(stack),
            insert_as_internal(NodeAt(m.root, Pop(stack)), stack[Len(stack)],
                               insertion.key, insertion.val, insertion.right),
            splits)

\* SearchStack::insert once insert_as_leaf on the top node gave r
stack_insert_leaf(m, stack, r) ==
    IF r.err # ""
    THEN [map |-> m, err |-> r.err, splits |-> 0]
    ELSE insert_loop([m EXCEPT !.root = WriteAt(@, stack, r.node)], stack, r.res, 0)

\* mutant: the length is not incremented
stack_insert_keeps_length(m, stack, top, key, value) ==
    stack_insert_leaf(m, stack,
                      insert_as_leaf(NodeAt(m.root, stack), top, key, value))

\* SearchStack::insert on the stack (stack, top): [map, err, splits]
stack_insert(m, stack, top, key, value) ==
    stack_insert_leaf([m EXCEPT !.length = @ + 1], stack,
                      insert_as_leaf(NodeAt(m.root, stack), top, key, value))

\* SearchStack::leafify, the descent to the leftmost leaf below path
RECURSIVE leftmost(_, _)
leftmost(rt, path) ==
    IF is_leaf(NodeAt(rt, path)) THEN path ELSE leftmost(rt, Append(path, 0))

\* mutant: the stack is moved to the leaf but the pairs are not exchanged
leafify_swapped_no_swap(rt, stack, top, node, leafpath, sw) ==
    [root |-> rt, stack |-> leafpath, top |-> 0, swapped |-> TRUE, err |-> sw.err]

\* SearchStack::leafify once the leaf's first pair was swapped (sw) with
\* slot top of node
leafify_swapped(rt, stack, top, node, leafpath, sw) ==
    [root |-> IF sw.err # "" THEN rt
              ELSE WriteAt(WriteAt(rt, stack,
                                   [node EXCEPT !.keys[top + 1] = sw.key,
                                                !.vals[top + 1] = sw.val]),
                           leafpath, sw.node),
     stack |-> leafpath, top |-> 0, swapped |-> TRUE, err |-> sw.err]

\* SearchStack::leafify at the leaf reached
leafify_at_leaf(rt, stack, top, node, leafpath) ==
    leafify_swapped(rt, stack, top, node, leafpath,
        unsafe_swap(NodeAt(rt, leafpath), 0, node.keys[top + 1], node.vals[top + 1]))


\* mutant: the descent starts at the child left of the slot
leafify_node_left_child(rt, stack, top, node) ==
    IF top >= Len(node.keys) \/ top >= Len(node.vals)
    THEN [root |-> rt, stack |-> stack, top |-> top, swapped |-> FALSE,
          err |-> "leafify: unsafe_key_mut out of range"]
    ELSE IF edge(node, top + 1) = None
    THEN [root |-> rt, stack |-> stack, top |-> top, swapped |-> FALSE, err |-> ""]
    ELSE leafify_at_leaf(rt, stack, top, node, leftmost(rt, Append(stack, top)))

\* SearchStack::leafify with node the node of top
leafify_node(rt, stack, top, node) ==
    IF top >= Len(node.keys) \/ top >= Len(node.vals)
    THEN [root |-> rt, stack |-> stack, top |-> top, swapped |-> FALSE,
          err |-> "leafify: unsafe_key_mut out of range"]
    ELSE IF edge(node, top + 1) = None
    THEN [root |-> rt, stack |-> stack, top |-> top, swapped |-> FALSE, err |-> ""]
    ELSE leafify_at_leaf(rt, stack, top, node, leftmost(rt, Append(stack, top + 1)))

\* SearchStack::leafify: [root, stack, top, err, swapped]
leafify(rt, stack, top) == leafify_node(rt, stack, top, NodeAt(rt, stack))

\* SearchStack::remove, the loop that pops the stack: [map, err, fixups, calls];
\* calls lists the handle_underflow calls made, each as [parent, index]
RECURSIVE remove_loop(_, _, _, _, _)

\* SearchStack::remove, the popped parent after handle_underflow gave r
remove_loop_parent(m, path, r, fixups, calls) ==
    IF r.err # ""
    THEN [map |-> m, err |-> r.err, fixups |-> fixups, calls |-> calls]
    ELSE remove_loop([m EXCEPT !.root = WriteAt(@, path, r.node)], path,
                     is_underfull(r.node), fixups + 1, calls)



\* mutant: a root left without keys is kept as it is
remove_loop_never_collapses(m, stack, underflow, fixups, calls) ==
    IF stack = <<>>
    THEN [map |-> m, err |-> "", fixups |-> fixups, calls |-> calls]
    ELSE IF underflow
    THEN remove_loop_parent(m, Pop(stack),
            handle_underflow(NodeAt(m.root, Pop(stack)), stack[Len(stack)]),
            fixups,
            Append(calls, [parent |-> NodeAt(m.root, Pop(stack)),
                           index |-> stack[Len(stack)]]))
    ELSE [map |-> m, err |-> "", fixups |-> fixups, calls |-> calls]

\* mutant: the root is replaced by its child but depth is not decremented
remove_loop_keeps_depth(m, stack, underflow, fixups, calls) ==
    IF stack = <<>>
    THEN IF len(m.root) = 0 /\ ~is_leaf(m.root)
         THEN [map |-> [m EXCEPT !.root = @.edges[Len(@.edges)]],
               err |-> "", fixups |-> fixups, calls |-> calls]
         ELSE [map |-> m, err |-> "", fixups |-> fixups, calls |-> calls]
    ELSE IF underflow
    THEN remove_loop_parent(m, Pop(stack),
            handle_underflow(NodeAt(m.root, Pop(stack)), stack[Len(stack)]),
            fixups,
            Append(calls, [parent |-> NodeAt(m.root, Pop(stack)),
                           index |-> stack[Len(stack)]]))
    ELSE [map |-> m, err |-> "", fixups |-> fixups, calls |-> calls]


\* mutant: every ancestor on the stack is fixed up, underflow pending or not
remove_loop_always_fixes(m, stack, underflow, fixups, calls) ==
    IF stack = <<>>
    THEN IF len(m.root) = 0 /\ ~is_leaf(m.root)
         THEN [map |-> [m EXCEPT !.depth = @ - 1,
                                 !.root = @.edges[Len(@.edges)]],
               err |-> IF m.depth = 0 THEN "remove: depth underflow" ELSE "",
               fixups |-> fixups, calls |-> calls]
         ELSE [map |-> m, err |-> "", fixups |-> fixups, calls |-> calls]
    ELSE remove_loop_parent(m, Pop(stack),
            handle_underflow(NodeAt(m.root, Pop(stack)), stack[Len(stack)]),
            fixups,
            Append(calls, [parent |-> NodeAt(m.root, Pop(stack)),
                           index |-> stack[Len(stack)]]))

remove_loop(m, stack, underflow, fixups, calls) ==
    IF stack = <<>>
    THEN IF len(m.root) = 0 /\ ~is_leaf(m.root)
         THEN [map |-> [m EXCEPT !.depth = @ - 1,
                                 !.root = @.edges[Len(@.edges)]],
               err |-> IF m.depth = 0 THEN "remove: depth underflow" ELSE "",
               fixups |-> fixups, calls |-> calls]
         ELSE [map |-> m, err |-> "", fixups |-> fixups, calls |-> calls]
    ELSE IF underflow
    THEN remove_loop_parent(m, Pop(stack),
            handle_underflow(NodeAt(m.root, Pop(stack)), stack[Len(stack)]),
            fixups,
            Append(calls, [parent |-> NodeAt(m.root, Pop(stack)),
                           index |-> stack[Len(stack)]]))
    ELSE [map |-> m, err |-> "", fixups |-> fixups, calls |-> calls]

\* SearchStack::remove once the loop gave r
stack_removed(rm, lf, r) ==
    [map |-> r.map, value |-> rm.val, err |-> r.err, swapped |-> lf.swapped,
     fixups |-> r.fixups, calls |-> r.calls, leaf |-> lf.stack]


\* mutant: the length is not decremented
stack_remove_pair_keeps_length(m, lf, rm) ==
    IF lf.err # "" \/ m.length = 0 \/ rm.err # ""
    THEN [map |-> m, value |-> 0,
          err |-> FirstErr(lf.err, FirstErr(IF m.length = 0
                                            THEN "remove: length underflow" ELSE "",
                                            rm.err)),
          swapped |-> lf.swapped, fixups |-> 0, calls |-> <<>>, leaf |-> lf.stack]
    ELSE stack_removed(rm, lf,
            remove_loop([m EXCEPT !.root = WriteAt(lf.root, lf.stack, rm.node)],
                        lf.stack, is_underfull(rm.node), 0, <<>>))

\* SearchStack::remove once remove_as_leaf on the leaf gave rm
stack_remove_pair(m, lf, rm) ==
    IF lf.err # "" \/ m.length = 0 \/ rm.err # ""
    THEN [map |-> m, value |-> 0,
          err |-> FirstErr(lf.err, FirstErr(IF m.length = 0
                                            THEN "remove: length underflow" ELSE "",
                                            rm.err)),
          swapped |-> lf.swapped, fixups |-> 0, calls |-> <<>>, leaf |-> lf.stack]
    ELSE stack_removed(rm, lf,
            remove_loop([m EXCEPT !.length = @ - 1,
                                  !.root = WriteAt(lf.root, lf.stack, rm.node)],
                        lf.stack, is_underfull(rm.node), 0, <<>>))

\* SearchStack::remove once leafify gave lf
stack_remove_leaf(m, lf) ==
    stack_remove_pair(m, lf, remove_as_leaf(NodeAt(lf.root, lf.stack), lf.top))

\* SearchStack::remove on the stack (stack, top):
\* [map, value, err, swapped, fixups, calls, leaf]; leaf is the node pointer
\* of self.top after leafify, the leaf the pair is removed from
stack_remove(m, stack, top) == stack_remove_leaf(m, leafify(m.root, stack, top))

\* -------------------------------------------------------------- map.rs
\* mutant: the assertion lets b = 1 through
with_b_accepts_one(bb) ==
    IF ~(bb > 0)
    THEN [map |-> None, err |-> "B must be greater than 1"]
    ELSE [map |-> Some([length |-> 0, depth |-> 1, root |-> make_leaf_root(bb), b |-> bb]),
          err |-> ""]

\* BTreeMap::with_b: [map, err]
with_b(bb) ==
    IF ~(bb > 1)
    THEN [map |-> None, err |-> "B must be greater than 1"]
    ELSE [map |-> Some([length |-> 0, depth |-> 1, root |-> make_leaf_root(bb), b |-> bb]),
          err |-> ""]

\* BTreeMap::find, the loop from cur_node: an Option<&V>
RECURSIVE find_from(_, _)

\* BTreeMap::find, the match on cur_node.search(key)
find_match(cur_node, key, sr) ==
    IF sr.tag = "Found" THEN val(cur_node, sr.idx)
    ELSE IF edge(cur_node, sr.idx) = None THEN None
    ELSE find_from(cur_node.edges[sr.idx + 1], key)

find_from(cur_node, key) == find_match(cur_node, key, search(cur_node, key))

find(m, key) == find_from(m.root, key)

\* BTreeMap::insert, the loop over the PartialSearchStack:
\* [map, ret, err, splits, where]
RECURSIVE map_insert_from(_, _, _, _)

\* BTreeMap::insert, the Done arm once SearchStack::insert gave r
map_insert_done(r) ==
    [map |-> r.map, ret |-> None, err |-> r.err, splits |-> r.splits,
     where |-> "absent"]

\* BTreeMap::insert, the match on stack.push(i)
map_insert_pushed(m, key, value, pr) ==
    IF pr.tag = "Done"
    THEN map_insert_done(stack_insert(m, pr.stack, pr.top, key, value))
    ELSE map_insert_from(m, pr.stack, key, value)

\* mutant: on an exact match the old value is returned but the new one not stored
map_insert_found_no_store(m, stack, next, i, value) ==
    [map |-> m,
     ret |-> Some(next.vals[i + 1]),
     err |-> ValErr(next, i), splits |-> 0,
     where |-> IF is_leaf(next) THEN "leaf" ELSE "internal"]

\* BTreeMap::insert, the Found(i) arm: mem::replace(next.unsafe_val_mut(i), value)
map_insert_found(m, stack, next, i, value) ==
    [map |-> [m EXCEPT !.root = WriteAt(@, stack, [next EXCEPT !.vals[i + 1] = value])],
     ret |-> Some(next.vals[i + 1]),
     err |-> ValErr(next, i), splits |-> 0,
     where |-> IF is_leaf(next) THEN "leaf" ELSE "internal"]

\* BTreeMap::insert, the match on stack.next().search(&key)
map_insert_match(m, stack, key, value, next, sr) ==
    IF sr.tag = "Found"
    THEN map_insert_found(m, stack, next, sr.idx, value)
    ELSE map_insert_pushed(m, key, value, push(m.root, stack, sr.idx))

\* BTreeMap::insert with next the node stack.next()
map_insert_next(m, stack, key, value, next) ==
    map_insert_match(m, stack, key, value, next, search(next, key))

map_insert_from(m, stack, key, value) ==
    map_insert_next(m, stack, key, value, NodeAt(m.root, stack))

insert(m, key, value) == map_insert_from(m, <<>>, key, value)

\* BTreeMap::remove, the loop over the PartialSearchStack:
\* [map, ret, err, fixups, where, calls]
RECURSIVE map_remove_from(_, _, _)

\* BTreeMap::remove, the Found arm once stack.seal(i).remove() gave r
map_remove_found(r) ==
    [map |-> r.map, ret |-> Some(r.value), err |-> r.err, fixups |-> r.fixups,
     where |-> IF r.swapped THEN "internal" ELSE "leaf", calls |-> r.calls,
     leaf |-> r.leaf]

\* mutant: a miss still decrements the length
map_remove_pushed_counts_miss(m, key, pr) ==
    IF pr.tag = "Done"
    THEN [map |-> [m EXCEPT !.length = IF @ > 0 THEN @ - 1 ELSE 0],
          ret |-> None, err |-> "", fixups |-> 0, where |-> "absent",
          calls |-> <<>>, leaf |-> <<>>]
    ELSE map_remove_from(m, pr.stack, key)

\* BTreeMap::remove, the match on stack.push(i)
map_remove_pushed(m, key, pr) ==
    IF pr.tag = "Done"
    THEN [map |-> m, ret |-> None, err |-> "", fixups |-> 0, where |-> "absent",
          calls |-> <<>>, leaf |-> <<>>]
    ELSE map_remove_from(m, pr.stack, key)

\* BTreeMap::remove, the match on stack.next().search(key)
map_remove_match(m, stack, key, sr) ==
    IF sr.tag = "Found"
    THEN map_remove_found(stack_remove(m, stack, sr.idx))
    ELSE map_remove_pushed(m, key, push(m.root, stack, sr.idx))

map_remove_from(m, stack, key) ==
    map_remove_match(m, stack, key, search(NodeAt(m.root, stack), key))

remove(m, key) == map_remove_from(m, <<>>, key)

\* ------------------------------------------------------------ myvec.rs
\* The allocator as MyVec uses it: MyVec owns at most one block.  cells is the
\* content of the block, one entry per element slot, live whether the block
\* is allocated, allocs the number of alloc calls and deallocs the dealloc
\* calls made, each with the pointer and the element count of its layout.
\* A pointer is Dangling (NonNull::dangling()) or Block (the block).
Dangling == "dangling"

Block == "block"

\* the content of a slot that was never written; the elements are 1..MaxVal
Uninit == 0

EmptyHeap == [cells |-> <<>>, live |-> FALSE, allocs |-> 0, deallocs |-> <<>>]

\* alloc::alloc(Layout::array::<T>(n))
alloc(h, n) ==
    [h EXCEPT !.cells = [j \in 1..n |-> Uninit], !.live = TRUE, !.allocs = @ + 1]

\* alloc::realloc to n elements: the old content is kept, the rest is new
realloc(h, n) ==
    [h EXCEPT !.cells = [j \in 1..n |-> IF j <= Len(h.cells) THEN h.cells[j]
                                        ELSE Uninit]]

\* alloc::dealloc(ptr, Layout::array::<T>(n)): the call is recorded; a call
\* on the block frees it
dealloc(h, ptr, n) ==
    [h EXCEPT !.deallocs = Append(@, [ptr |-> ptr, size |-> n]),
              !.live = IF ptr = Block THEN FALSE ELSE @,
              !.cells = IF ptr = Block THEN <<>> ELSE @]

\* ptr::write(ptr.add(off), x)
ptr_write(h, off, x) == [h EXCEPT !.cells[off + 1] = x]

\* ptr::copy(ptr.add(src), ptr.add(dst), count): count slots, as memmove
ptr_copy(h, src, dst, count) ==
    [h EXCEPT !.cells = [j \in 1..Len(h.cells) |->
                            IF dst < j /\ j <= dst + count
                            THEN h.cells[j - dst + src]
                            ELSE h.cells[j]]]

\* MyVec::new
MyVec_new == [ptr |-> Dangling, cap |-> 0, len |-> 0]

\* MyVec::grow: one slot at first, then twice the capacity: [vec, heap].
\* Within the bounds 2 * cap does not overflow and the layout size stays
\* below isize::MAX, so neither the unwrap nor the assert fails.
MyVec_grow(v, h) ==
    [vec  |-> [v EXCEPT !.ptr = Block, !.cap = IF v.cap = 0 THEN 1 ELSE 2 * v.cap],
     heap |-> IF v.cap = 0 THEN alloc(h, 1) ELSE realloc(h, 2 * v.cap)]

\* the vector with room for one more element: grown when len = cap
MyVec_reserved(v, h) ==
    IF v.len = v.cap THEN MyVec_grow(v, h) ELSE [vec |-> v, heap |-> h]

\* MyVec::push once there is room (g): [vec, heap, ret, err]
MyVec_pushed(g, elem) ==
    [vec  |-> [g.vec EXCEPT !.len = @ + 1],
     heap |-> ptr_write(g.heap, g.vec.len, elem),
     ret  |-> None, err |-> ""]

\* MyVec::push
MyVec_push(v, h, elem) == MyVec_pushed(MyVec_reserved(v, h), elem)

\* MyVec::pop: [vec, heap, ret, err]
MyVec_pop(v, h) ==
    IF v.len = 0
    THEN [vec |-> v, heap |-> h, ret |-> None, err |-> ""]
    ELSE [vec |-> [v EXCEPT !.len = @ - 1], heap |-> h,
          ret |-> Some(h.cells[v.len]), err |-> ""]

\* mutant: the new element is written without the later ones being shifted
MyVec_inserted_no_shift(g, index, elem) ==
    [vec  |-> [g.vec EXCEPT !.len = @ + 1],
     heap |-> ptr_write(g.heap, index, elem),
     ret  |-> None, err |-> ""]

\* MyVec::insert once there is room (g)
MyVec_inserted(g, index, elem) ==
    [vec  |-> [g.vec EXCEPT !.len = @ + 1],
     heap |-> ptr_write(ptr_copy(g.heap, index, index + 1, g.vec.len - index),
                        index, elem),
     ret  |-> None, err |-> ""]

\* MyVec::insert: [vec, heap, ret, err]
MyVec_insert(v, h, index, elem) ==
    IF ~(index <= v.len)
    THEN [vec |-> v, heap |-> h, ret |-> None, err |-> "index out of bounds"]
    ELSE MyVec_inserted(MyVec_reserved(v, h), index, elem)

\* MyVec::remove: [vec, heap, ret, err], the element returned as Some(elem)
MyVec_remove(v, h, index) ==
    IF ~(index < v.len)
    THEN [vec |-> v, heap |-> h, ret |-> None, err |-> "index out of bounds"]
    ELSE [vec  |-> [v EXCEPT !.len = @ - 1],
          heap |-> ptr_copy(h, index + 1, index, v.len - 1 - index),
          ret  |-> Some(h.cells[index + 1]), err |-> ""]

\* Deref for MyVec: the slice of the first len slots
deref(v, h) == SubSeq(h.cells, 1, v.len)

\* Drop for MyVec: [vec, heap]
MyVec_drop(v, h) ==
    IF v.cap # 0
    THEN [vec |-> [v EXCEPT !.len = 0], heap |-> dealloc(h, v.ptr, v.cap)]
    ELSE [vec |-> v, heap |-> h]

\* MyVec::into_iter: start and end are offsets from buf, in elements
into_iter(v) ==
    [buf |-> v.ptr, cap |-> v.cap, start |-> 0,
     end |-> IF v.cap = 0 THEN 0 ELSE v.len]

\* MyVecIntoIter::next: [iter, ret]
IntoIter_next(it, h) ==
    IF it.start = it.end
    THEN [iter |-> it, ret |-> None]
    ELSE [iter |-> [it EXCEPT !.start = @ + 1], ret |-> Some(h.cells[it.start + 1])]

\* MyVecIntoIter::next_back: [iter, ret]
IntoIter_next_back(it, h) ==
    IF it.start = it.end
    THEN [iter |-> it, ret |-> None]
    ELSE [iter |-> [it EXCEPT !.end = @ - 1], ret |-> Some(h.cells[it.end])]

\* Drop for MyVecIntoIter: the remaining elements are taken by next, then
\* dealloc is called on buf with the layout of cap elements, whatever cap is.
\* With cap = 0 buf is dangling: the call has undefined behaviour, and the
\* build either goes on or the allocator ends the program (crash).
IntoIter_drop(it, h, crash) ==
    [iter |-> [it EXCEPT !.start = it.end],
     heap |-> dealloc(h, it.buf, it.cap),
     err  |-> IF it.buf = Dangling /\ crash
              THEN "dealloc: pointer was never allocated" ELSE ""]

\* --------------------------------------------------------- state machine
VARIABLES
    map,      \* Option<BTreeMap>: None before construction, Some(map) after
    fatal,    \* the panic that ended the program, "" while it runs
    ref,      \* reference key-value map driven by the same calls
    last,     \* the last call: its arguments, its result and what it did
    phase,    \* where the MyVec program is: "start", "vec", "iter" or "end"
    vec,      \* Option<MyVec>: Some(vec) while the MyVec is owned
    iter,     \* Option<MyVecIntoIter>: Some(iter) while the iterator is owned
    heap,     \* the allocator
    vref,     \* reference sequence driven by the same MyVec calls
    vlast     \* the last MyVec call, its result and the reference's result

vecvars == <<phase, vec, iter, heap, vref, vlast>>

vars == <<map, fatal, ref, last, phase, vec, iter, heap, vref, vlast>>

NoVecCall == [op |-> "none", index |-> 0, elem |-> 0, ret |-> None,
              want |-> None, rejected |-> FALSE]

\* no MyVec program has started
VecIdle ==
    /\ phase = "start"
    /\ vec = None
    /\ iter = None
    /\ heap = EmptyHeap
    /\ vref = <<>>
    /\ vlast = NoVecCall

Built == map # None /\ fatal = ""

\* the fields of the constructed map
M == map[1]
root == M.root
length == M.length
depth == M.depth
b == M.b

NoCall == [op |-> "none", key |-> 0, val |-> 0, ret |-> None, where |-> "absent",
           splits |-> 0, fixups |-> 0]

Init ==
    /\ map = None
    /\ fatal = ""
    /\ ref = <<>>
    /\ last = NoCall
    /\ VecIdle

\* reference map: insert and remove on a function from present keys to values
RefInsert(f, k, v) == [x \in (DOMAIN f) \cup {k} |-> IF x = k THEN v ELSE f[x]]

RefRemove(f, k) == [x \in (DOMAIN f) \ {k} |-> f[x]]

RefGet(f, k) == IF k \in DOMAIN f THEN Some(f[k]) ELSE None

\* the state after with_b(bb) gave r
Constructed(bb, r) ==
    /\ map' = r.map
    /\ fatal' = r.err
    /\ ref' = <<>>
    /\ last' = [NoCall EXCEPT !.op = "with_b", !.key = bb]
    /\ UNCHANGED vecvars

\* BTreeMap::with_b(bb)
Construct(bb) ==
    /\ map = None /\ fatal = ""
    /\ Constructed(bb, with_b(bb))

\* the map after map.insert(k, v) gave r
Inserted(k, v, r) ==
    /\ map' = Some(r.map)
    /\ fatal' = r.err
    /\ ref' = RefInsert(ref, k, v)
    /\ UNCHANGED vecvars

\* the map after map.remove(&k) gave r
Removed(k, r) ==
    /\ map' = Some(r.map)
    /\ fatal' = r.err
    /\ ref' = RefRemove(ref, k)
    /\ UNCHANGED vecvars

\* the state after map.insert(k, v) gave r, the call recorded
InsertedSeen(k, v, r) ==
    /\ Inserted(k, v, r)
    /\ last' = [op |-> "insert", key |-> k, val |-> v, ret |-> r.ret,
                where |-> r.where, splits |-> r.splits, fixups |-> 0]

\* the state after map.remove(&k) gave r, the call recorded
RemovedSeen(k, r) ==
    /\ Removed(k, r)
    /\ last' = [op |-> "remove", key |-> k, val |-> 0, ret |-> r.ret,
                where |-> r.where, splits |-> 0, fixups |-> r.fixups]

\* BTreeMap::insert(k, v)
Insert(k, v) == Built /\ InsertedSeen(k, v, insert(M, k, v))

\* BTreeMap::remove(k)
Remove(k) == Built /\ RemovedSeen(k, remove(M, k))

\* BTreeMap::find(k)
Find(k) ==
    /\ Built
    /\ last' = [NoCall EXCEPT !.op = "find", !.key = k, !.ret = find(M, k)]
    /\ UNCHANGED <<map, fatal, ref>>
    /\ UNCHANGED vecvars

Next ==
    \/ \E bb \in 0..MaxB : Construct(bb)
    \/ \E k \in Keys, v \in Vals : Insert(k, v)
    \/ \E k \in Keys : Remove(k)
    \/ \E k \in Keys : Find(k)

Spec == Init /\ [][Next]_vars

\* ------------------------------------------------- the deep-tree machine
\* A map with the smallest branching parameter, over enough keys for the
\* tree to reach three levels; each key is stored with itself as value,
\* as main.rs and small_test1 insert (i, i).  The calls are not recorded.
MinB == 2

InitDeep ==
    /\ map = with_b(MinB).map
    /\ fatal = ""
    /\ ref = <<>>
    /\ last = NoCall
    /\ VecIdle

DeepInsert(k) == Built /\ Inserted(k, k, insert(M, k, k)) /\ UNCHANGED last

DeepRemove(k) == Built /\ Removed(k, remove(M, k)) /\ UNCHANGED last

NextDeep ==
    \/ \E k \in DeepKeys : DeepInsert(k)
    \/ \E k \in DeepKeys : DeepRemove(k)

SpecDeep == InitDeep /\ [][NextDeep]_vars

\* the same machine with insert calls only, each call recorded
NextInsertOnly == \E k \in DeepKeys : Insert(k, k)

SpecInsertOnly == InitDeep /\ [][NextInsertOnly]_vars


\* the same machine fed a strictly ascending run of keys: each insert call
\* carries a key greater than every key inserted before, each call recorded
AscInsert(k) == (\A j \in DOMAIN ref : j < k) /\ Insert(k, k)

NextAscending == \E k \in DeepKeys : AscInsert(k)

SpecAscending == InitDeep /\ [][NextAscending]_vars



\* ------------------------------------------------------ the MyVec machine
\* One MyVec of elements 1..MaxVal, from MyVec::new() on.  Each call is
\* recorded in vlast together with what the reference sequence vref answers:
\* want is the reference's return value and rejected whether the reference
\* has no such index.  A panic ends the program (fatal).
VecLive == phase = "vec" /\ fatal = ""

IterLive == phase = "iter" /\ fatal = ""

V == vec[1]

It == iter[1]

\* the state after a MyVec call op(index, elem) gave r
MyVecCalled(op, index, elem, r, want, rejected) ==
    /\ vec' = Some(r.vec)
    /\ heap' = r.heap
    /\ fatal' = r.err
    /\ vlast' = [op |-> op, index |-> index, elem |-> elem, ret |-> r.ret,
                 want |-> want, rejected |-> rejected]
    /\ UNCHANGED <<phase, iter, map, ref, last>>

\* let mut v = MyVec::new()
MyVecNew ==
    /\ phase = "start" /\ fatal = ""
    /\ phase' = "vec"
    /\ vec' = Some(MyVec_new)
    /\ vlast' = [NoVecCall EXCEPT !.op = "new"]
    /\ UNCHANGED <<iter, heap, vref, fatal, map, ref, last>>

\* v.push(x)
MyVecPush(x) ==
    /\ VecLive /\ V.len < MaxVecLen
    /\ MyVecCalled("push", 0, x, MyVec_push(V, heap, x), None, FALSE)
    /\ vref' = Append(vref, x)

\* v.pop()
MyVecPop ==
    /\ VecLive
    /\ MyVecCalled("pop", 0, 0, MyVec_pop(V, heap),
                   IF vref = <<>> THEN None ELSE Some(vref[Len(vref)]), FALSE)
    /\ vref' = VecPop(vref)

\* v.insert(i, x)
MyVecInsert(i, x) ==
    /\ VecLive /\ V.len < MaxVecLen
    /\ MyVecCalled("insert", i, x, MyVec_insert(V, heap, i, x), None, i > Len(vref))
    /\ vref' = IF i > Len(vref) THEN vref ELSE VecInsert(vref, i, x)

\* v.remove(i)
MyVecRemove(i) ==
    /\ VecLive
    /\ MyVecCalled("remove", i, 0, MyVec_remove(V, heap, i),
                   IF i >= Len(vref) THEN None ELSE Some(vref[i + 1]),
                   i >= Len(vref))
    /\ vref' = IF i >= Len(vref) THEN vref ELSE VecRemove(vref, i)

\* drop(v)
MyVecDrop ==
    /\ VecLive
    /\ phase' = "end"
    /\ vec' = None
    /\ heap' = MyVec_drop(V, heap).heap
    /\ vlast' = [NoVecCall EXCEPT !.op = "drop"]
    /\ UNCHANGED <<iter, vref, fatal, map, ref, last>>

\* let it = v.into_iter(): the MyVec is moved into the iterator, not dropped
MyVecIntoIter ==
    /\ VecLive
    /\ phase' = "iter"
    /\ vec' = None
    /\ iter' = Some(into_iter(V))
    /\ vlast' = [NoVecCall EXCEPT !.op = "into_iter"]
    /\ UNCHANGED <<heap, vref, fatal, map, ref, last>>

\* the state after it.next() or it.next_back() gave r
IterCalled(op, r, want) ==
    /\ iter' = Some(r.iter)
    /\ vlast' = [NoVecCall EXCEPT !.op = op, !.ret = r.ret, !.want = want]
    /\ UNCHANGED <<phase, vec, heap, fatal, map, ref, last>>

\* it.next()
IterNext ==
    /\ IterLive
    /\ IterCalled("next", IntoIter_next(It, heap),
                  IF vref = <<>> THEN None ELSE Some(vref[1]))
    /\ vref' = IF vref = <<>> THEN vref ELSE Tail(vref)

\* it.next_back()
IterNextBack ==
    /\ IterLive
    /\ IterCalled("next_back", IntoIter_next_back(It, heap),
                  IF vref = <<>> THEN None ELSE Some(vref[Len(vref)]))
    /\ vref' = VecPop(vref)

\* drop(it); crash is the outcome of the undefined dealloc call, if any
IterDrop(crash) ==
    /\ IterLive
    /\ phase' = "end"
    /\ iter' = None
    /\ heap' = IntoIter_drop(It, heap, crash).heap
    /\ fatal' = IntoIter_drop(It, heap, crash).err
    /\ vlast' = [NoVecCall EXCEPT !.op = "drop_iter"]
    /\ UNCHANGED <<vec, vref, map, ref, last>>

VecIndices == 0..(MaxVecLen + 1)

\* the calls that read and change the sequence
NextVec ==
    \/ MyVecNew
    \/ \E x \in Vals : MyVecPush(x)
    \/ MyVecPop
    \/ \E i \in VecIndices, x \in Vals : MyVecInsert(i, x)
    \/ \E i \in VecIndices : MyVecRemove(i)

SpecVec == Init /\ [][NextVec]_vars

\* the lifecycles: new, pushes and pops, then a drop, or into_iter followed
\* by next and next_back calls and the drop of the iterator
NextLife ==
    \/ MyVecNew
    \/ \E x \in Vals : MyVecPush(x)
    \/ MyVecPop
    \/ MyVecDrop
    \/ MyVecIntoIter
    \/ IterNext
    \/ IterNextBack
    \/ \E crash \in BOOLEAN : IterDrop(crash)

SpecLife == Init /\ [][NextLife]_vars

\* ------------------------------------------------ observations of a tree
\* in-order traversal: the keys of a subtree, left to right
RECURSIVE InOrder(_)
InOrder(n) ==
    IF n.edges = <<>> THEN n.keys
    ELSE LET F[i \in 0..Len(n.edges)] ==
                 IF i = 0 THEN <<>>
                 ELSE F[i - 1] \o InOrder(n.edges[i])
                              \o (IF i <= Len(n.keys) THEN <<n.keys[i]>> ELSE <<>>)
         IN  F[Len(n.edges)]

\* every node of a subtree, each with its distance from the subtree's root
RECURSIVE NodesAt(_, _)
NodesAt(n, d) ==
    {<<d, n>>} \cup UNION {NodesAt(n.edges[i], d + 1) : i \in 1..Len(n.edges)}

\* number of key-value pairs stored in a subtree
RECURSIVE Pairs(_)
Pairs(n) ==
    LET F[i \in 0..Len(n.edges)] == IF i = 0 THEN 0 ELSE F[i - 1] + Pairs(n.edges[i])
    IN  Len(n.keys) + F[Len(n.edges)]

\* a subtree without its values: every node's key sequence and child structure
RECURSIVE Shape(_)
Shape(n) == [keys |-> n.keys, edges |-> [i \in 1..Len(n.edges) |-> Shape(n.edges[i])]]

StrictlyIncreasing(s) == \A i \in 1..(Len(s) - 1) : s[i] < s[i + 1]

AllKeys == Keys \cup DeepKeys

\* the set of elements of a sequence
Elems(s) == {s[j] : j \in DOMAIN s}

\* ------------------------------------------------- the full-tree machine
\* A two-level map in which the root and each of its 2b leaves hold 2b-1
\* pairs, the state inserts reach by filling every node; the keys are the
\* even numbers, so that a new key fits between any two of them, and each
\* key is stored with itself as value.
FullLeaf(bb, c) ==
    [keys  |-> [j \in 1..(2 * bb - 1) |-> 2 * ((c - 1) * 2 * bb + j)],
     vals  |-> [j \in 1..(2 * bb - 1) |-> 2 * ((c - 1) * 2 * bb + j)],
     edges |-> <<>>,
     cap   |-> capacity_from_b(bb)]

FullRoot(bb) ==
    [keys  |-> [c \in 1..(2 * bb - 1) |-> 2 * (c * 2 * bb)],
     vals  |-> [c \in 1..(2 * bb - 1) |-> 2 * (c * 2 * bb)],
     edges |-> [c \in 1..(2 * bb) |-> FullLeaf(bb, c)],
     cap   |-> capacity_from_b(bb)]

FullMap(bb) ==
    [root |-> FullRoot(bb), length |-> Pairs(FullRoot(bb)), depth |-> 2, b |-> bb]

InitFull ==
    /\ \E bb \in MinB..MaxB : map = Some(FullMap(bb))
    /\ fatal = ""
    /\ ref = [k \in Elems(InOrder(root)) |-> k]
    /\ last = NoCall
    /\ VecIdle

NextFull ==
    \/ \E k \in Keys : Insert(k, k)
    \/ \E k \in Keys : Remove(k)

SpecFull == InitFull /\ [][NextFull]_vars

\* ---------------------------------------------------------------- claims
\* A step that changes the state records its call in last', so a step with
\* last'.op = "remove" is the call remove(last'.key) made in the state before.

\* C1: after any sequence of insert and remove calls, find(k) agrees with the
\* reference map driven by the same calls, for every key, and so does the
\* result of every find call made.
C1_FindAgreesWithReference ==
    Built =>
        /\ \A k \in AllKeys : find(M, k) = RefGet(ref, k)
        /\ last.op = "find" => last.ret = RefGet(ref, last.key)

\* a find call returned the value of a key held in a tree of two levels
C1_Witness ==
    /\ Built
    /\ last.op = "find" /\ last.ret = Some(MaxVal)
    /\ depth = 2 /\ length >= 4

\* C2: remove(k) of a present key returns the stored value; afterwards k is
\* absent, length is one less and every other key keeps its value.
C2_RemovePresent ==
    [][(Built /\ last'.op = "remove" /\ find(M, last'.key) # None) =>
           LET k == last'.key
           IN  /\ fatal' = ""
               /\ last'.ret = find(M, k)
               /\ find(M', k) = None
               /\ length' = length - 1
               /\ \A j \in AllKeys \ {k} : find(M', j) = find(M, j)]_vars

\* a remove call took a key out of an internal node and had to fix an underflow
C2_Witness ==
    /\ Built
    /\ last.op = "remove" /\ last.ret # None
    /\ last.where = "internal" /\ last.fixups >= 1

\* the balance conditions of a tree rooted at rt for branching parameter bb
Balanced(rt, bb) ==
    /\ \A x, y \in NodesAt(rt, 1) :
          (is_leaf(x[2]) /\ is_leaf(y[2])) => x[1] = y[1]
    /\ \A x \in NodesAt(rt, 1) :
          /\ x[1] > 1 => Len(x[2].keys) >= bb - 1
          /\ Len(x[2].keys) <= 2 * bb - 1

\* C3: between calls every leaf is at the same depth, every non-root node
\* holds between b-1 and 2b-1 keys and the root at most 2b-1.
C3_Balance == Built => Balanced(root, b)

\* a tree of three levels with a node at minimum load and a full node
C3_Witness ==
    /\ Built /\ depth = 3
    /\ \E x, y \in NodesAt(root, 1) :
          /\ x[1] > 1 /\ Len(x[2].keys) = b - 1
          /\ y[1] > 1 /\ Len(y[2].keys) = 2 * b - 1

\* C4: after any sequence of inserts the in-order traversal of the tree is
\* strictly increasing, so no key appears twice.
C4_InOrderIncreasing == Built => StrictlyIncreasing(InOrder(root))

\* every key has been inserted and the tree has grown to three levels
C4_Witness == Built /\ depth = 3 /\ Len(InOrder(root)) = DeepKey

\* C5: insert(k, v2) of a present key returns the old value, leaves length,
\* depth and the shape of the tree unchanged and makes find(k) return v2.
C5_Overwrite ==
    [][(Built /\ last'.op = "insert" /\ find(M, last'.key) # None) =>
           LET k == last'.key
               v2 == last'.val
           IN  /\ fatal' = ""
               /\ last'.ret = find(M, k)
               /\ length' = length
               /\ depth' = depth
               /\ Shape(root') = Shape(root)
               /\ find(M', k) = Some(v2)]_vars

\* an insert call replaced the value of a key of an internal node by another
C5_Witness ==
    /\ Built
    /\ last.op = "insert" /\ last.ret # None /\ last.ret # Some(last.val)
    /\ last.where = "internal"

\* C6: remove(k) of an absent key returns None and leaves the map as it was.
C6_RemoveAbsent ==
    [][(Built /\ last'.op = "remove" /\ find(M, last'.key) = None) =>
           /\ fatal' = ""
           /\ last'.ret = None
           /\ map' = map]_vars

\* a remove call missed in a tree of two levels
C6_Witness ==
    /\ Built
    /\ last.op = "remove" /\ last.ret = None
    /\ depth = 2

\* C7: insert(k, v) of an absent key returns None, adds one to length and
\* keeps every key that was present, with its value, whatever it splits.
C7_InsertAbsent ==
    [][(Built /\ last'.op = "insert" /\ find(M, last'.key) = None) =>
           LET k == last'.key
           IN  /\ fatal' = ""
               /\ last'.ret = None
               /\ length' = length + 1
               /\ \A j \in AllKeys \ {k} : find(M', j) = find(M, j)]_vars

\* an insert call split a leaf and then the internal root above it
C7_Witness ==
    /\ Built
    /\ last.op = "insert" /\ last.ret = None
    /\ last.splits = 2 /\ depth = 3

\* C8: the length field equals the number of pairs stored in the tree.
C8_LengthCountsPairs == Built => length = Pairs(root)

\* a tree of three levels that removals have brought to its smallest size
C8_Witness == Built /\ depth = 3 /\ length = 7 /\ Pairs(root) = 7

\* C9: no call hits a fatal condition: no assert, unreachable!, unwrap or
\* out-of-range access fails, and the loops of every call end.
C9_NoFatal == fatal = ""

\* a tree of three levels with every node at minimum load: the next removal
\* underflows at every level
C9_Witness ==
    /\ Built /\ depth = 3
    /\ \A x \in NodesAt(root, 1) : Len(x[2].keys) = b - 1

\* C10: with_b(b) panics and builds no map when b <= 1; for b > 1 it builds a
\* map of length 0 and depth 1 whose root is an empty leaf.
C10_Construction ==
    [][(last.op = "none" /\ last'.op = "with_b") =>
           LET bb == last'.key
           IN  IF bb <= 1
               THEN fatal' # "" /\ map' = None
               ELSE /\ fatal' = "" /\ map' # None
                    /\ length' = 0 /\ depth' = 1
                    /\ root'.keys = <<>> /\ root'.vals = <<>> /\ is_leaf(root')
                    /\ b' = bb]_vars

\* with_b(1) ended in a panic and there is no map
C10_Witness == last.op = "with_b" /\ last.key = 1 /\ fatal # "" /\ map = None

\* C11: a map that holds no key is in the state of a freshly constructed map
\* with the same b (empty leaf root, depth 1, length 0), and every next call
\* gives on it the result and the tree it gives on the fresh map.
C11_EmptiedIsFresh ==
    (Built /\ Pairs(root) = 0) =>
        /\ root.keys = <<>> /\ root.vals = <<>> /\ is_leaf(root)
        /\ depth = 1 /\ length = 0
        /\ map = with_b(b).map
        /\ \A k \in Keys :
              /\ find(M, k) = find(with_b(b).map[1], k)
              /\ remove(M, k) = remove(with_b(b).map[1], k)
              /\ \A v \in Vals : insert(M, k, v) = insert(with_b(b).map[1], k, v)

\* a remove call took the last key out of a map with b = 2
C11_Witness ==
    /\ Built /\ b = MinB
    /\ last.op = "remove" /\ last.ret # None
    /\ Pairs(root) = 0

\* C12: with b = 2 and strictly ascending inserts into an empty map, no call
\* fails, the balance conditions hold after each insert, and once 10 keys are
\* in the map depth is 3 and every leaf is on the third level.
C12_AscendingRun ==
    /\ fatal = ""
    /\ b = 2
    /\ Balanced(root, b)
    /\ Pairs(root) >= 10 =>
          /\ depth = 3
          /\ \A x \in NodesAt(root, 1) : is_leaf(x[2]) => x[1] = 3

\* the tenth ascending insert split a leaf and the root and made depth 3
C12_Witness ==
    /\ Built
    /\ last.op = "insert" /\ last.ret = None /\ last.splits = 2
    /\ Pairs(root) = 10 /\ depth = 3
    /\ StrictlyIncreasing(InOrder(root))

\* the handle_underflow calls that remove(k) makes on the map m, over every key
UnderflowCalls(m) ==
    UNION {{remove(m, k).calls[j] : j \in DOMAIN remove(m, k).calls} : k \in DeepKeys}

\* what a fix-up did, read off the parent p before and q after, for the
\* underflowed child at (0-based) index i
StoleFromLeft(p, i, q) ==
    /\ i > 0
    /\ Len(q.edges) = Len(p.edges) /\ Len(q.keys) = Len(p.keys)
    /\ p.edges[i].keys # <<>>
    /\ q.edges[i].keys = SubSeq(p.edges[i].keys, 1, Len(p.edges[i].keys) - 1)
    /\ q.keys[i] = p.edges[i].keys[Len(p.edges[i].keys)]
    /\ q.edges[i + 1].keys = <<p.keys[i]>> \o p.edges[i + 1].keys
    /\ \A j \in DOMAIN p.edges \ {i, i + 1} : q.edges[j] = p.edges[j]

StoleFromRight(p, i, q) ==
    /\ i + 2 <= Len(p.edges)
    /\ Len(q.edges) = Len(p.edges) /\ Len(q.keys) = Len(p.keys)
    /\ p.edges[i + 2].keys # <<>>
    /\ q.edges[i + 2].keys = Tail(p.edges[i + 2].keys)
    /\ q.keys[i + 1] = Head(p.edges[i + 2].keys)
    /\ q.edges[i + 1].keys = Append(p.edges[i + 1].keys, p.keys[i + 1])
    /\ \A j \in DOMAIN p.edges \ {i + 1, i + 2} : q.edges[j] = p.edges[j]

MergedWithLeft(p, i, q) ==
    /\ i > 0
    /\ Len(q.edges) = Len(p.edges) - 1 /\ Len(q.keys) = Len(p.keys) - 1
    /\ q.edges[i].keys = p.edges[i].keys \o <<p.keys[i]>> \o p.edges[i + 1].keys

MergedWithRight(p, i, q) ==
    /\ i + 2 <= Len(p.edges)
    /\ Len(q.edges) = Len(p.edges) - 1 /\ Len(q.keys) = Len(p.keys) - 1
    /\ q.edges[i + 1].keys = p.edges[i + 1].keys \o <<p.keys[i + 1]>> \o p.edges[i + 2].keys

\* a sibling that can lend: it exists and holds more than bb - 1 keys
LeftCanLend(p, i, bb) == i > 0 /\ Len(p.edges[i].keys) > bb - 1

RightCanLend(p, i, bb) == i + 2 <= Len(p.edges) /\ Len(p.edges[i + 2].keys) > bb - 1

\* C13 as claimed: steal from the left if it can lend, else steal from the
\* right if it can lend, and merge only when neither sibling can lend.
C13_StealEitherSideFirst ==
    Built => \A c \in UnderflowCalls(M) :
        LET q == handle_underflow(c.parent, c.index).node
        IN  IF LeftCanLend(c.parent, c.index, b)
            THEN StoleFromLeft(c.parent, c.index, q)
            ELSE IF RightCanLend(c.parent, c.index, b)
            THEN StoleFromRight(c.parent, c.index, q)
            ELSE IF c.index > 0
            THEN MergedWithLeft(c.parent, c.index, q)
            ELSE MergedWithRight(c.parent, c.index, q)

\* C13 amended: handle_underflow looks at one sibling only.  A child with
\* index > 0 steals from its left sibling when that one holds more than b-1
\* keys and otherwise merges with it, whatever the right sibling holds; the
\* child at index 0 does the same with its right sibling.
C13_OneSiblingDecides ==
    Built => \A c \in UnderflowCalls(M) :
        LET q == handle_underflow(c.parent, c.index).node
        IN  /\ handle_underflow(c.parent, c.index).err = ""
            /\ Len(c.parent.edges[c.index + 1].keys) < b - 1
            /\ IF c.index > 0
               THEN IF LeftCanLend(c.parent, c.index, b)
                    THEN StoleFromLeft(c.parent, c.index, q)
                    ELSE MergedWithLeft(c.parent, c.index, q)
               ELSE IF RightCanLend(c.parent, c.index, b)
                    THEN StoleFromRight(c.parent, c.index, q)
                    ELSE MergedWithRight(c.parent, c.index, q)

\* a remove is about to underflow a child with index > 0 whose left sibling
\* is at b-1 keys and whose right sibling holds more: it is merged leftwards
C13_Witness ==
    /\ Built
    /\ \E c \in UnderflowCalls(M) :
          /\ c.index > 0
          /\ ~LeftCanLend(c.parent, c.index, b)
          /\ RightCanLend(c.parent, c.index, b)
          /\ MergedWithLeft(c.parent, c.index,
                            handle_underflow(c.parent, c.index).node)

\* the node pointers of a subtree: the path to each of its nodes
RECURSIVE PathsOf(_)
PathsOf(n) ==
    {<<>>} \cup UNION {{<<i - 1>> \o q : q \in PathsOf(n.edges[i])} :
                         i \in 1..Len(n.edges)}

\* the slots of the internal nodes of the tree rt, each as <<path, index>>
InternalSlots(rt) ==
    {<<p, i>> \in PathsOf(rt) \X (0..(2 * MaxB)) :
        ~is_leaf(NodeAt(rt, p)) /\ i < Len(NodeAt(rt, p).keys)}

\* the in-order successor of key k in a sequence of keys
Successor(ks, k) ==
    CHOOSE x \in {ks[j] : j \in DOMAIN ks} :
        x > k /\ \A j \in DOMAIN ks : ks[j] > k => x <= ks[j]

\* the path p extended with (node, i + 1) and then child 0 down to length n
LeftmostBelow(p, i, n) ==
    [j \in 1..n |-> IF j <= Len(p) THEN p[j] ELSE IF j = Len(p) + 1 THEN i + 1 ELSE 0]

\* C14 for the slot i of the internal node at path p: lf is what leafify gave,
\* rm what remove_as_leaf then took out of the leaf, r the whole removal
LeafifiedThenRemoved(p, i, node, lf, rm, r) ==
    /\ lf.err = "" /\ rm.err = "" /\ r.err = ""
    /\ lf.swapped /\ lf.top = 0
    /\ Len(lf.stack) > Len(p)
    /\ lf.stack = LeftmostBelow(p, i, Len(lf.stack))
    /\ is_leaf(NodeAt(root, lf.stack))
    /\ NodeAt(root, lf.stack).keys[1] = Successor(InOrder(root), node.keys[i + 1])
    /\ NodeAt(lf.root, p).keys[i + 1] = NodeAt(root, lf.stack).keys[1]
    /\ NodeAt(lf.root, p).vals[i + 1] = NodeAt(root, lf.stack).vals[1]
    /\ NodeAt(lf.root, lf.stack).keys[1] = node.keys[i + 1]
    /\ NodeAt(lf.root, lf.stack).vals[1] = node.vals[i + 1]
    /\ rm.key = node.keys[i + 1] /\ rm.val = node.vals[i + 1]
    /\ rm.node.keys = Tail(NodeAt(root, lf.stack).keys)
    /\ \A q \in PathsOf(root) \ {lf.stack} :
          Len(NodeAt(lf.root, q).keys) = Len(NodeAt(root, q).keys)
    /\ r.value = node.vals[i + 1]
    /\ remove(M, node.keys[i + 1]) = map_remove_found(r)

\* C14: remove(k) with k at slot i of an internal node exchanges the pair with
\* the first pair of the leftmost leaf below child i+1 (k's in-order
\* successor), extends the path by (node, i+1) and then child 0 at each level,
\* takes slot 0 out of that leaf and returns k's value; the successor's pair
\* is left in slot i and no internal node loses a key to the removal itself.
C14_LeafifySwapsWithSuccessor ==
    Built => \A s \in InternalSlots(root) :
        LeafifiedThenRemoved(s[1], s[2], NodeAt(root, s[1]),
            leafify(root, s[1], s[2]),
            remove_as_leaf(NodeAt(leafify(root, s[1], s[2]).root,
                                  leafify(root, s[1], s[2]).stack),
                           leafify(root, s[1], s[2]).top),
            stack_remove(M, s[1], s[2]))

\* a three-level tree: a key of the root is exchanged with the first pair of
\* a leaf two levels below
C14_Witness ==
    /\ Built /\ depth = 3
    /\ <<<<>>, 0>> \in InternalSlots(root)
    /\ leafify(root, <<>>, 0).swapped
    /\ leafify(root, <<>>, 0).stack = <<1, 0>>
    /\ remove(M, root.keys[1]).where = "internal"

\* the search-tree order of a subtree: keys strictly increasing in the node,
\* one child more than keys, and child i holding only keys strictly between
\* keys[i-1] and keys[i] (no bound below the first, none above the last)
RECURSIVE Ordered(_)
Ordered(n) ==
    /\ StrictlyIncreasing(n.keys)
    /\ Len(n.vals) = Len(n.keys)
    /\ n.edges # <<>> =>
          /\ Len(n.edges) = Len(n.keys) + 1
          /\ \A i \in 1..Len(n.edges) :
                /\ Ordered(n.edges[i])
                /\ \A j \in DOMAIN InOrder(n.edges[i]) :
                      /\ i > 1 => n.keys[i - 1] < InOrder(n.edges[i])[j]
                      /\ i <= Len(n.keys) => InOrder(n.edges[i])[j] < n.keys[i]

\* C15: between calls, after any inserts and removes, every node's keys are
\* strictly increasing and every child subtree lies strictly between the two
\* keys of its parent that surround it.
C15_SearchTreeOrder == Built => Ordered(root)

\* a three-level tree with fewer keys than inserts alone need to build one:
\* removes, with their swaps, steals and merges, have reshaped it
C15_Witness ==
    /\ Built /\ depth = 3 /\ Pairs(root) = 9
    /\ Len(root.keys) = 1
    /\ \E i \in 1..Len(root.edges) : Len(root.edges[i].keys) = 2

\* C16: an insert whose split passes the root (every node of the path split,
\* so the count of splits equals the depth before the call) leaves a new
\* internal root with one key, the old root's middle pair, and two children,
\* the old root's lower half on the left and the new sibling with its upper
\* half on the right, and depth is one more; any other insert, also one whose
\* split an ancestor took in, leaves depth as it was.
C16_RootSplit ==
    [][(Built /\ last'.op = "insert" /\ last'.ret = None) =>
           IF last'.splits = depth
           THEN /\ fatal' = ""
                /\ depth' = depth + 1
                /\ ~is_leaf(root')
                /\ Len(root'.keys) = 1 /\ Len(root'.vals) = 1
                /\ Len(root'.edges) = 2
                /\ root'.cap = capacity_from_b(b)
                /\ Len(root.keys) = 2 * b - 1
                /\ root'.keys[1] = root.keys[b]
                /\ root'.vals[1] = root.vals[b]
                /\ Elems(SubSeq(root.keys, 1, b - 1)) \subseteq Elems(root'.edges[1].keys)
                /\ Elems(SubSeq(root.keys, b + 1, 2 * b - 1))
                       \subseteq Elems(root'.edges[2].keys)
                /\ Len(root'.edges[1].keys) + Len(root'.edges[2].keys) = 2 * b - 1
                /\ is_leaf(root'.edges[1]) = is_leaf(root)
                /\ is_leaf(root'.edges[2]) = is_leaf(root)
           ELSE /\ depth' = depth
                /\ is_leaf(root') = is_leaf(root)
                /\ Len(root'.keys) = Len(root.keys) + (IF last'.splits = depth - 1 THEN 1 ELSE 0)
      ]_vars

\* an insert split a leaf and then the full internal root: the new root has
\* one key over two internal children
C16_Witness ==
    /\ Built
    /\ last.op = "insert" /\ last.ret = None /\ last.splits = 2
    /\ depth = 3
    /\ Len(root.keys) = 1 /\ Len(root.edges) = 2
    /\ ~is_leaf(root.edges[1]) /\ ~is_leaf(root.edges[2])
    /\ Len(root.edges[1].keys) + Len(root.edges[2].keys) = 3

\* the map of the removal r when its last fix-up left q as the root
CollapsedIfEmpty(q, r) ==
    IF q.keys = <<>>
    THEN /\ Len(q.edges) = 1
         /\ r.map.root = q.edges[1]
         /\ r.map.depth = depth - 1
    ELSE /\ r.map.root = q
         /\ r.map.depth = depth

\* the removal r from the present map: the fix-ups reach the root when there
\* is one for every level above the leaf
RootAfterRemove(r) ==
    /\ r.err = ""
    /\ ~(~is_leaf(r.map.root) /\ r.map.root.keys = <<>>)
    /\ IF depth > 1 /\ Len(r.calls) = depth - 1
       THEN CollapsedIfEmpty(handle_underflow(r.calls[Len(r.calls)].parent,
                                              r.calls[Len(r.calls)].index).node, r)
       ELSE /\ r.map.depth = depth
            /\ is_leaf(r.map.root) = is_leaf(root)
            /\ Len(r.map.root.edges) = Len(root.edges)

\* C17: a removal whose fix-ups reach the root and leave it internal without
\* keys replaces the root by its one child and takes one off depth; any other
\* removal keeps depth, and a leaf root that loses its last key stays as an
\* empty leaf.  Between calls the root is never an internal node without keys.
C17_RootCollapse ==
    Built =>
        /\ ~(~is_leaf(root) /\ root.keys = <<>>)
        /\ \A k \in DeepKeys : find(M, k) # None => RootAfterRemove(remove(M, k))

\* a three-level tree from which one removal merges the root's two children
\* and collapses the root
C17_Witness ==
    /\ Built /\ depth = 3
    /\ \E k \in DeepKeys :
          /\ Len(remove(M, k).calls) = 2
          /\ remove(M, k).map.depth = 2
          /\ Len(remove(M, k).map.root.keys) = 2
          /\ Len(remove(M, k).map.root.edges) = 3

\* depth counts the levels: every leaf is on level depth, the root on level 1
DepthIsHeight ==
    /\ \A x \in NodesAt(root, 1) : is_leaf(x[2]) => x[1] = depth
    /\ depth = 1 <=> is_leaf(root)

\* what a call may do to depth: add one when an insert of a new key splits
\* the full root, take one off when a remove of a present key merges the two
\* children of a one-key root, and nothing else
DepthStep ==
    /\ depth' \in {depth - 1, depth, depth + 1}
    /\ depth' = depth + 1 =>
          /\ DOMAIN ref \subseteq DOMAIN ref' /\ DOMAIN ref' # DOMAIN ref
          /\ Len(root.keys) = 2 * b - 1
          /\ Len(root'.keys) = 1 /\ Len(root'.edges) = 2
    /\ depth' = depth - 1 =>
          /\ DOMAIN ref' \subseteq DOMAIN ref /\ DOMAIN ref' # DOMAIN ref
          /\ Len(root.keys) = 1 /\ Len(root.edges) = 2
          /\ Len(root'.keys) > 1 \/ is_leaf(root')
          /\ Pairs(root') = Pairs(root) - 1

\* C18: between calls depth is the number of levels from the root to every
\* leaf, so depth = 1 exactly when the root is a leaf; a call changes depth
\* only by +1, on a root split, or by -1, on a root collapse.
C18_DepthIsHeight ==
    /\ [](Built => DepthIsHeight)
    /\ [][(Built /\ Built') => DepthStep]_vars

\* a three-level tree that has lost keys since its root split: depth is
\* still the level of each of its leaves
C18_Witness ==
    /\ Built /\ depth = 3 /\ Pairs(root) = 8
    /\ \A x \in NodesAt(root, 1) : is_leaf(x[2]) => x[1] = 3

\* C19: between calls length is 0 exactly when the root is a leaf without keys.
C19_EmptyIffEmptyLeafRoot ==
    Built => (length = 0 <=> (is_leaf(root) /\ root.keys = <<>>))

\* a remove call on a one-key leaf root with b = MaxB left the map empty
C19_Witness ==
    /\ Built /\ b = MaxB
    /\ last.op = "remove" /\ last.ret # None /\ last.where = "leaf"
    /\ length = 0 /\ is_leaf(root) /\ root.keys = <<>>

\* a key that sorts into slot i of node n: one below keys[i], one above keys[i-1]
FreshAt(n, i) == IF i = 0 THEN n.keys[1] - 1 ELSE n.keys[i] + 1

\* key may be inserted at index i of n: it keeps the keys strictly increasing
FitsAt(n, i, key) ==
    /\ i > 0 => n.keys[i] < key
    /\ i < Len(n.keys) => key < n.keys[i + 1]

\* C20 for one call: r is what insert_as_leaf or insert_as_internal gave for
\* the full node n, the index i and the key key, under branching parameter bb
SplitInsertOK(n, i, key, r, bb) ==
    /\ r.err = ""
    /\ r.res.tag = "Split"
    /\ r.res.key = n.keys[bb] /\ r.res.val = n.vals[bb]
    /\ r.res.key # key
    /\ IF i <= bb - 1
       THEN /\ Len(r.node.keys) = bb /\ Len(r.res.right.keys) = bb - 1
            /\ r.node.keys[i + 1] = key
       ELSE /\ Len(r.node.keys) = bb - 1 /\ Len(r.res.right.keys) = bb
            /\ r.res.right.keys[i - (bb - 1) - 1 + 1] = key
    /\ Len(r.node.vals) = Len(r.node.keys)
    /\ Len(r.res.right.vals) = Len(r.res.right.keys)
    /\ r.node.keys \o <<r.res.key>> \o r.res.right.keys
          = SubSeq(n.keys, 1, i) \o <<key>> \o SubSeq(n.keys, i + 1, Len(n.keys))
    /\ \A x \in Elems(r.node.keys) : x < r.res.key
    /\ \A y \in Elems(r.res.right.keys) : r.res.key < y
    /\ is_leaf(n) => (is_leaf(r.node) /\ is_leaf(r.res.right))
    /\ ~is_leaf(n) =>
          /\ Len(r.node.edges) = Len(r.node.keys) + 1
          /\ Len(r.res.right.edges) = Len(r.res.right.keys) + 1

\* C20 for the full leaf n: every index with a key that sorts there
LeafSplitsOK(n, bb) ==
    \A i \in 0..(2 * bb - 1) :
        FitsAt(n, i, FreshAt(n, i)) =>
            SplitInsertOK(n, i, FreshAt(n, i),
                          insert_as_leaf(n, i, FreshAt(n, i), FreshAt(n, i)), bb)

\* C20 for the full internal node n whose child i is a full leaf: the child
\* split by an insert at j gave s, and s.res is inserted into n at index i
InternalSplitOK(n, i, s, bb) ==
    s.res.tag = "Split" /\
    SplitInsertOK(n, i, s.res.key,
                  insert_as_internal([n EXCEPT !.edges[i + 1] = s.node], i,
                                     s.res.key, s.res.val, s.res.right), bb)

InternalSplitsOK(n, bb) ==
    \A i \in 0..(2 * bb - 1), j \in 0..(2 * bb - 1) :
        (/\ is_leaf(n.edges[i + 1]) /\ is_full(n.edges[i + 1])
         /\ FitsAt(n.edges[i + 1], j, FreshAt(n.edges[i + 1], j))) =>
            InternalSplitOK(n, i,
                insert_as_leaf(n.edges[i + 1], j, FreshAt(n.edges[i + 1], j),
                               FreshAt(n.edges[i + 1], j)), bb)

\* C20: an insert at any index 0..2b-1 into a full node, leaf or internal,
\* with a key that sorts at that index, gives a left half and a right sibling
\* of b and b-1 keys, the new pair in the half of its index at the remapped
\* index, and promotes the node's original middle pair, never the new one,
\* with left keys < median < right keys.
C20_SplitThenInsert ==
    Built => \A p \in PathsOf(root) :
        is_full(NodeAt(root, p)) =>
            IF is_leaf(NodeAt(root, p))
            THEN LeafSplitsOK(NodeAt(root, p), b)
            ELSE InternalSplitsOK(NodeAt(root, p), b)

\* with b = MaxB an insert has split a full leaf and then the full root above
\* it, and the tree still holds full leaves and a full internal node
C20_Witness ==
    /\ Built /\ b = MaxB /\ depth = 3
    /\ last.op = "insert" /\ last.ret = None /\ last.splits = 2
    /\ \E p \in PathsOf(root) : is_leaf(NodeAt(root, p)) /\ is_full(NodeAt(root, p))

\* a node holds one value per key and either no child or one more than keys
NodeShapeOK(n) ==
    /\ Len(n.vals) = Len(n.keys)
    /\ Len(n.edges) = 0 \/ Len(n.edges) = Len(n.keys) + 1

\* C21: in every state reached by insert and remove calls, every node has as
\* many values as keys and either zero children or exactly keys+1 children;
\* the halves of a split internal node and the receiver of a steal or a
\* merge are nodes of such states.
C21_NodeArity ==
    Built => \A e \in NodesAt(root, 0) : NodeShapeOK(e[2])

\* a three-level tree, so an internal node has been split, in which a remove
\* call fixes up an underflow among internal nodes as well as among leaves
C21_Witness ==
    /\ Built /\ depth = 3
    /\ \E k \in DOMAIN ref :
          /\ Len(remove(M, k).calls) >= 2
          /\ ~is_leaf(remove(M, k).calls[2].parent.edges[1])
          /\ remove(M, k).err = ""

\* reference binary search of key in ks[lo..hi), 0-based: Found(i) at the
\* slot that holds key, GoDown(i) at the slot where key would be inserted
RECURSIVE BinarySearch(_, _, _, _)
BinarySearch(ks, key, lo, hi) ==
    IF lo >= hi THEN GoDown(lo)
    ELSE LET mid == (lo + hi) \div 2
         IN  IF ks[mid + 1] = key THEN Found(mid)
             ELSE IF ks[mid + 1] < key THEN BinarySearch(ks, key, mid + 1, hi)
             ELSE BinarySearch(ks, key, lo, mid)

\* the index of the first key of ks strictly greater than key, Len(ks) if none
FirstGreater(ks, key) ==
    IF \E j \in 1..Len(ks) : ks[j] > key
    THEN (CHOOSE j \in 1..Len(ks) :
              ks[j] > key /\ \A h \in 1..(j - 1) : ks[h] <= key) - 1
    ELSE Len(ks)

\* what C22 asks of the result sr of searching key in the keys ks
SearchOK(ks, key, sr) ==
    /\ (\E j \in 1..Len(ks) : ks[j] = key) =>
          (sr.tag = "Found" /\ ks[sr.idx + 1] = key)
    /\ (\A j \in 1..Len(ks) : ks[j] # key) => sr = GoDown(FirstGreater(ks, key))
    /\ sr = BinarySearch(ks, key, 0, Len(ks))

\* the probes: every key a call may carry, one below and one above them
Probes == 0..(MaxKey + 1)

\* C22: for every node, whose keys are strictly increasing, and every probe
\* key, search returns Found(i) when keys[i] = key and otherwise GoDown(i)
\* with i the index of the first key greater than the probe (n if none),
\* the same result as a reference binary search over the keys.
C22_SearchResult ==
    Built => \A e \in NodesAt(root, 0), key \in Probes :
        /\ StrictlyIncreasing(e[2].keys)
        /\ SearchOK(e[2].keys, key, search(e[2], key))

\* a find call has searched a node of at least three keys; the node answers
\* Found past its first slot, GoDown in its middle and GoDown(n) at its end
C22_Witness ==
    /\ Built /\ last.op = "find" /\ last.ret # None
    /\ Len(root.keys) >= 3
    /\ search(root, last.key).tag = "Found" /\ search(root, last.key).idx >= 1
    /\ \E key \in Probes :
          search(root, key).tag = "GoDown" /\ search(root, key).idx \in 1..(Len(root.keys) - 1)
    /\ search(root, MaxKey + 1) = GoDown(Len(root.keys))

\* handle_underflow(p, i) merges: the one sibling it looks at cannot lend
IsMerge(p, i, bb) ==
    IF i > 0 THEN ~LeftCanLend(p, i, bb) ELSE ~RightCanLend(p, i, bb)

\* C23 for one merge: p is the parent before and q after, li the (0-based)
\* index of the left one of the two merged children
MergeOK(p, li, q, bb) ==
    /\ q.keys = VecRemove(p.keys, li)
    /\ q.vals = VecRemove(p.vals, li)
    /\ Len(q.keys) = Len(p.keys) - 1
    /\ Len(q.edges) = Len(p.edges) - 1
    /\ q.edges[li + 1].keys =
          p.edges[li + 1].keys \o <<p.keys[li + 1]>> \o p.edges[li + 2].keys
    /\ q.edges[li + 1].vals =
          p.edges[li + 1].vals \o <<p.vals[li + 1]>> \o p.edges[li + 2].vals
    /\ q.edges[li + 1].edges = p.edges[li + 1].edges \o p.edges[li + 2].edges
    /\ \A j \in 1..li : q.edges[j] = p.edges[j]
    /\ \A j \in (li + 2)..Len(q.edges) : q.edges[j] = p.edges[j + 1]
    /\ Len(q.edges[li + 1].keys) <= 2 * bb - 2
    /\ Len(q.edges[li + 1].keys) <= capacity(q.edges[li + 1])
    /\ capacity(q.edges[li + 1]) = 2 * bb - 1
    /\ Pairs(q) = Pairs(p)

\* C23 for one handle_underflow call c that gave r
MergeCallOK(c, r, bb) ==
    IsMerge(c.parent, c.index, bb) =>
        /\ r.err = ""
        /\ MergeOK(c.parent, IF c.index > 0 THEN c.index - 1 ELSE c.index, r.node, bb)

\* C23: a merge by handle_underflow joins the underflowed child, the parent's
\* separating pair and the adjacent sibling (the left one if child_index > 0,
\* else the right one) into one node: left keys, separator, right keys, and
\* both child lists in order; the parent loses one key and one child; the
\* merged node holds at most 2b-2 keys, within its capacity 2b-1; the number
\* of pairs below the parent is unchanged.
C23_Merge ==
    Built => \A c \in UnderflowCalls(M) :
        MergeCallOK(c, handle_underflow(c.parent, c.index), b)

\* a remove is about to merge two internal nodes leftwards, and a remove is
\* about to merge the first child with its right sibling
C23_Witness ==
    /\ Built
    /\ \E c \in UnderflowCalls(M) :
          /\ c.index > 0 /\ IsMerge(c.parent, c.index, b)
          /\ ~is_leaf(c.parent.edges[1])
          /\ MergedWithLeft(c.parent, c.index, handle_underflow(c.parent, c.index).node)
    /\ \E c \in UnderflowCalls(M) :
          /\ c.index = 0 /\ IsMerge(c.parent, c.index, b)
          /\ MergedWithRight(c.parent, c.index, handle_underflow(c.parent, c.index).node)

\* C24 for a steal from the left sibling: p is the parent before and q after,
\* i the (0-based) index of the underflowed child, so that p.edges[i] is the
\* left sibling, p.keys[i] the separating key and p.edges[i + 1] the child
StealLeftOK(p, i, q, bb) ==
    /\ Len(q.keys) = Len(p.keys) /\ Len(q.edges) = Len(p.edges)
    /\ q.keys = [p.keys EXCEPT ![i] = p.edges[i].keys[Len(p.edges[i].keys)]]
    /\ q.vals = [p.vals EXCEPT ![i] = p.edges[i].vals[Len(p.edges[i].vals)]]
    /\ q.edges[i].keys = VecPop(p.edges[i].keys)
    /\ q.edges[i].vals = VecPop(p.edges[i].vals)
    /\ q.edges[i + 1].keys = <<p.keys[i]>> \o p.edges[i + 1].keys
    /\ q.edges[i + 1].vals = <<p.vals[i]>> \o p.edges[i + 1].vals
    /\ IF is_leaf(p.edges[i])
       THEN is_leaf(q.edges[i]) /\ is_leaf(q.edges[i + 1])
       ELSE /\ q.edges[i].edges = VecPop(p.edges[i].edges)
            /\ q.edges[i + 1].edges =
                  <<p.edges[i].edges[Len(p.edges[i].edges)]>> \o p.edges[i + 1].edges
    /\ \A j \in DOMAIN p.edges \ {i, i + 1} : q.edges[j] = p.edges[j]
    /\ Len(q.edges[i].keys) >= bb - 1
    /\ Len(q.edges[i + 1].keys) = bb - 1
    /\ InOrder(q) = InOrder(p)
    /\ StrictlyIncreasing(InOrder(q))

\* the mirror image: p.edges[i + 1] is the underflowed child, p.keys[i + 1]
\* the separating key and p.edges[i + 2] the right sibling
StealRightOK(p, i, q, bb) ==
    /\ Len(q.keys) = Len(p.keys) /\ Len(q.edges) = Len(p.edges)
    /\ q.keys = [p.keys EXCEPT ![i + 1] = p.edges[i + 2].keys[1]]
    /\ q.vals = [p.vals EXCEPT ![i + 1] = p.edges[i + 2].vals[1]]
    /\ q.edges[i + 2].keys = Tail(p.edges[i + 2].keys)
    /\ q.edges[i + 2].vals = Tail(p.edges[i + 2].vals)
    /\ q.edges[i + 1].keys = Append(p.edges[i + 1].keys, p.keys[i + 1])
    /\ q.edges[i + 1].vals = Append(p.edges[i + 1].vals, p.vals[i + 1])
    /\ IF is_leaf(p.edges[i + 2])
       THEN is_leaf(q.edges[i + 2]) /\ is_leaf(q.edges[i + 1])
       ELSE /\ q.edges[i + 2].edges = Tail(p.edges[i + 2].edges)
            /\ q.edges[i + 1].edges =
                  Append(p.edges[i + 1].edges, p.edges[i + 2].edges[1])
    /\ \A j \in DOMAIN p.edges \ {i + 1, i + 2} : q.edges[j] = p.edges[j]
    /\ Len(q.edges[i + 2].keys) >= bb - 1
    /\ Len(q.edges[i + 1].keys) = bb - 1
    /\ InOrder(q) = InOrder(p)
    /\ StrictlyIncreasing(InOrder(q))

\* C24 for one handle_underflow call c that gave r
StealCallOK(c, r, bb) ==
    ~IsMerge(c.parent, c.index, bb) =>
        /\ r.err = ""
        /\ IF c.index > 0
           THEN StealLeftOK(c.parent, c.index, r.node, bb)
           ELSE StealRightOK(c.parent, c.index, r.node, bb)

\* C24: a steal is a rotation through the parent.  From the left: the left
\* sibling's last pair goes to the parent's separating slot, the old
\* separating pair to the front of the underflowed child and, for internal
\* children, the left sibling's last child to the front of the child's
\* children; from the right, the mirror image.  The parent keeps its key
\* count, the donor ends with at least b-1 keys, the receiver with exactly
\* b-1, and the keys stay in order.
C24_StealRotates ==
    Built => \A c \in UnderflowCalls(M) :
        StealCallOK(c, handle_underflow(c.parent, c.index), b)

\* a remove is about to steal from the left between internal nodes, and a
\* remove is about to steal from the right between leaves
C24_Witness ==
    /\ Built
    /\ \E c \in UnderflowCalls(M) :
          /\ c.index > 0 /\ ~IsMerge(c.parent, c.index, b)
          /\ ~is_leaf(c.parent.edges[1])
          /\ StoleFromLeft(c.parent, c.index, handle_underflow(c.parent, c.index).node)
    /\ \E c \in UnderflowCalls(M) :
          /\ c.index = 0 /\ ~IsMerge(c.parent, c.index, b)
          /\ is_leaf(c.parent.edges[1])
          /\ StoleFromRight(c.parent, c.index, handle_underflow(c.parent, c.index).node)

\* a remove is about to steal from the right between internal nodes
C24_InternalStealRight ==
    /\ Built
    /\ \E c \in UnderflowCalls(M) :
          /\ c.index = 0 /\ ~IsMerge(c.parent, c.index, b)
          /\ ~is_leaf(c.parent.edges[1])
          /\ StoleFromRight(c.parent, c.index, handle_underflow(c.parent, c.index).node)

\* the node pointer p leads to the node at q or to one of its ancestors
IsPrefix(p, q) == Len(p) <= Len(q) /\ SubSeq(q, 1, Len(p)) = p

\* the j-th handle_underflow call c of a removal from the leaf at lp in the
\* tree rt: it is made on the j-th ancestor anc of the leaf, for the child on
\* the path, which is underfull; the ancestor still has the key and child
\* counts and the other children it had before the removal
FixupCallOK(rt, lp, j, anc, c) ==
    /\ c.index = lp[Len(lp) - j + 1]
    /\ Len(c.parent.keys) = Len(NodeAt(rt, anc).keys)
    /\ Len(c.parent.edges) = Len(NodeAt(rt, anc).edges)
    /\ \A e \in DOMAIN c.parent.edges \ {c.index + 1} :
          c.parent.edges[e] = NodeAt(rt, anc).edges[e]
    /\ is_underfull(c.parent.edges[c.index + 1])

\* the node at p, outside the subtree of top, before (old) and after (new)
\* the removal of key k: above top it keeps its key, value and child counts,
\* and its keys but for k where leafify swapped; elsewhere it is unchanged
FrameNodeOK(p, top, old, new, k, swapped) ==
    IF IsPrefix(p, top)
    THEN /\ Len(new.keys) = Len(old.keys)
         /\ Len(new.vals) = Len(old.vals)
         /\ Len(new.edges) = Len(old.edges)
         /\ \A j \in DOMAIN old.keys :
               new.keys[j] = old.keys[j] \/ (swapped /\ old.keys[j] = k)
    ELSE new = old

\* where the fix-up of a removal stopped below the root: top is the leaf or
\* the last fixed-up ancestor
StoppedOK(m, k, r, top) ==
    /\ ~is_underfull(NodeAt(r.map.root, top))
    /\ r.map.depth = m.depth
    /\ \A p \in PathsOf(m.root) :
          ~IsPrefix(top, p) =>
              FrameNodeOK(p, top, NodeAt(m.root, p), NodeAt(r.map.root, p), k,
                          r.where = "internal")

\* C25 for the removal of the present key k from the map m, which gave r
FixupsOK(m, k, r) ==
    /\ r.err = ""
    /\ r.fixups = Len(r.calls)
    /\ Len(r.calls) <= Len(r.leaf)
    /\ \A j \in 1..Len(r.calls) :
          FixupCallOK(m.root, r.leaf, j, SubSeq(r.leaf, 1, Len(r.leaf) - j), r.calls[j])
    /\ Len(r.calls) < Len(r.leaf) =>
          StoppedOK(m, k, r, SubSeq(r.leaf, 1, Len(r.leaf) - Len(r.calls)))

\* C25: a remove fixes up consecutive ancestors of the leaf, bottom-up, each
\* only for an underfull child; once the leaf or a fixed-up ancestor is not
\* underfull it stops, and no node above that level has its key count or
\* child count changed: above it, at most the removed key was replaced in
\* place by the leafify swap.
C25_FixupStops ==
    Built => \A k \in DOMAIN ref : FixupsOK(M, k, remove(M, k))

\* a remove is about to take a key out of the root of a three-level tree,
\* fix one underflow at the leaf's parent and stop there, below the root
C25_Witness ==
    /\ Built /\ depth = 3
    /\ \E k \in DOMAIN ref :
          /\ \E j \in DOMAIN root.keys : root.keys[j] = k
          /\ remove(M, k).where = "internal"
          /\ Len(remove(M, k).calls) = 1
          /\ Len(remove(M, k).leaf) = 2
          /\ remove(M, k).err = ""

\* C26: the content of the MyVec equals the reference sequence driven by the
\* same push, pop, insert and remove calls, each call returns what the
\* reference returns, len never exceeds cap, and insert with index > len or
\* remove with index >= len panics, out of bounds, and only then.
C26_VecRefinesSequence ==
    phase = "vec" =>
        /\ V.len <= V.cap
        /\ deref(V, heap) = vref
        /\ vlast.ret = vlast.want
        /\ (fatal # "") <=> vlast.rejected
        /\ fatal # "" => fatal = "index out of bounds"

\* a remove call took the second of four elements, in a buffer that grew to
\* four slots, and the elements after it moved left
C26_Witness ==
    /\ VecLive
    /\ vlast.op = "remove" /\ vlast.index = 1 /\ vlast.ret # None
    /\ V.len = 3 /\ V.cap = 4
    /\ vref[1] # vref[2]
    /\ vlast.ret # Some(vref[2])

\* an insert and a remove beyond the end have each been rejected
C26_Rejected ==
    /\ phase = "vec" /\ fatal = "index out of bounds"
    /\ vlast.op = "insert" /\ vlast.index = V.len + 1

\* C27 as claimed: whatever the lifecycle, dealloc is called only on a buffer
\* that was allocated (cap # 0) and then once; when the lifecycle has ended
\* the allocated buffer has been freed, and a MyVec that never allocated has
\* caused no dealloc call, whether it or its iterator was dropped.
C27_DeallocOnlyAllocated ==
    /\ \A j \in DOMAIN heap.deallocs :
          heap.deallocs[j].ptr = Block /\ heap.deallocs[j].size # 0
    /\ Len(heap.deallocs) <= heap.allocs
    /\ heap.allocs <= 1
    /\ phase = "end" => Len(heap.deallocs) = heap.allocs /\ ~heap.live

\* the same, but for the drop of the iterator of a MyVec that never allocated
C27_ExceptUnallocatedIter ==
    (vlast.op = "drop_iter" /\ heap.allocs = 0) \/ C27_DeallocOnlyAllocated

\* the iterator of a MyVec that never allocated was dropped, and dealloc was
\* called on the dangling pointer with a layout of no elements
C27_DanglingDealloc ==
    /\ phase = "end" /\ vlast.op = "drop_iter"
    /\ heap.allocs = 0
    /\ heap.deallocs = <<[ptr |-> Dangling, size |-> 0]>>

\* the iterator of a MyVec that allocated was dropped with elements left in
\* it, and the buffer was freed once
C27_IterFreed ==
    /\ phase = "end" /\ vlast.op = "drop_iter" /\ fatal = ""
    /\ vref # <<>>
    /\ heap.allocs = 1 /\ Len(heap.deallocs) = 1
    /\ heap.deallocs[1].ptr = Block /\ heap.deallocs[1].size > 1

====
